---- MODULE Spec2Model ----
(* A model of gonfig: the merge engine (src/src/merge.rs), the source          *)
(* priorities (src/src/source.rs), the file source (src/src/config.rs), the    *)
(* environment source (src/src/environment.rs) and the builder                 *)
(* (src/src/builder.rs).                                                       *)
EXTENDS Integers, Sequences, FiniteSets, TLC

VARIABLES
    \* one call of MergeStrategy::merge
    mpc, strategy, base, incoming, merged,
    \* one call of ConfigMerger::merge_sources
    spc, pairs, result,
    \* one ConfigBuilder: its fields, the position of the chain of calls, the
    \* calls a terminal operation made, and what the chain returned
    bpc, sources, merge_strategy, validate, log, outcome,
    \* the process environment and the file system
    env, fs,
    \* one coercion of a raw string, and one source used without a builder:
    \* the source and what its collect returned
    raw_value, coerced, one_source, collected,
    \* the arguments of the process, the point queries answered by the source
    \* used on its own, and what a second run of the builder's chain returned
    argv, queried, again

mergeVars == <<mpc, strategy, base, incoming, merged>>
sourcesVars == <<spc, pairs, result>>
builderVars == <<bpc, sources, merge_strategy, validate, log, outcome>>
worldVars == <<env, fs>>
runVars == <<argv, queried, again>>
unitVars == <<raw_value, coerced, one_source, collected, runVars>>
vars == <<mergeVars, sourcesVars, builderVars, worldVars, unitVars>>

\* no coercion and no source on its own
NoRun == argv = <<>> /\ queried = <<>> /\ again = <<>>
NoUnit ==
    /\ raw_value = <<>> /\ coerced = <<>> /\ one_source = <<>> /\ collected = <<>>
    /\ NoRun

\* no builder exists
NoBuilder ==
    /\ bpc = "idle" /\ sources = <<>> /\ merge_strategy = "Deep"
    /\ validate = <<>> /\ log = <<>> /\ outcome = <<>>
    /\ env = <<>> /\ fs = <<>>

-----------------------------------------------------------------------------
(* serde_json::Value: a tagged record, v holding the payload of the variant.   *)

Null == [t |-> "null", v |-> "null"]
Bool(b) == [t |-> "bool", v |-> b]
Num(n) == [t |-> "num", v |-> n]
Str(s) == [t |-> "str", v |-> s]
Arr(s) == [t |-> "arr", v |-> s]
Obj(f) == [t |-> "obj", v |-> f]

\* A String is the sequence of its characters; the keys of the objects below.
kA == <<"a">>
kB == <<"b">>
kC == <<"c">>
kX == <<"x">>
kY == <<"y">>
kZ == <<"z">>

NoEntries == [k \in {} |-> Null]
EmptyObject == Obj(NoEntries)

is_object(x) == x.t = "obj"
is_array(x) == x.t = "arr"

Keys(x) == IF is_object(x) THEN DOMAIN x.v ELSE {}
Holds(x, k) == k \in Keys(x)

-----------------------------------------------------------------------------
(* str operations of the standard library, on sequences of characters          *)

LowerLetters == << "a", "b", "c", "d", "e", "f", "g", "h", "i", "j", "k", "l", "m",
                   "n", "o", "p", "q", "r", "s", "t", "u", "v", "w", "x", "y", "z" >>
UpperLetters == << "A", "B", "C", "D", "E", "F", "G", "H", "I", "J", "K", "L", "M",
                   "N", "O", "P", "Q", "R", "S", "T", "U", "V", "W", "X", "Y", "Z" >>
Digits == << "0", "1", "2", "3", "4", "5", "6", "7", "8", "9" >>

IndexIn(letters, c) == CHOOSE i \in 1..Len(letters) : letters[i] = c
IsIn(letters, c) == \E i \in 1..Len(letters) : letters[i] = c

char_to_uppercase(c) ==
    IF IsIn(LowerLetters, c) THEN UpperLetters[IndexIn(LowerLetters, c)] ELSE c
char_to_lowercase(c) ==
    IF IsIn(UpperLetters, c) THEN LowerLetters[IndexIn(UpperLetters, c)] ELSE c

RECURSIVE to_uppercase(_)
to_uppercase(s) ==
    IF s = <<>> THEN <<>>
    ELSE <<char_to_uppercase(Head(s))>> \o to_uppercase(Tail(s))

RECURSIVE to_lowercase(_)
to_lowercase(s) ==
    IF s = <<>> THEN <<>>
    ELSE <<char_to_lowercase(Head(s))>> \o to_lowercase(Tail(s))

starts_with(s, pat) == Len(pat) <= Len(s) /\ SubSeq(s, 1, Len(pat)) = pat
ends_with(s, pat) ==
    Len(pat) <= Len(s) /\ SubSeq(s, Len(s) - Len(pat) + 1, Len(s)) = pat

\* s[n..]: s without its first n characters
DropFirst(s, n) == SubSeq(s, n + 1, Len(s))

\* every leading repetition of a non-empty pat removed
RECURSIVE trim_start_matches(_, _)
trim_start_matches(s, pat) ==
    IF pat # <<>> /\ starts_with(s, pat)
    THEN trim_start_matches(DropFirst(s, Len(pat)), pat)
    ELSE s

-----------------------------------------------------------------------------
(* Option<T>, Result<T, Error>, HashMap<K, V>                                  *)

None == <<>>
Some(x) == <<x>>
Ok(x) == [ok |-> TRUE, value |-> x]
Err(kind) == [ok |-> FALSE, error |-> kind]
Unit == "()"

\* HashMap::insert
Insert(m, k, x) == [j \in DOMAIN m \cup {k} |-> IF j = k THEN x ELSE m[j]]

-----------------------------------------------------------------------------
(* str::parse::<bool>, str::parse::<i64>, str::parse::<f64>                    *)

Chars(s) == {s[i] : i \in 1..Len(s)}
IsDigits(s) == s # <<>> /\ \A i \in 1..Len(s) : IsIn(Digits, s[i])
DigitValue(c) == IndexIn(Digits, c) - 1

RECURSIVE DigitsValue(_)
DigitsValue(s) ==
    IF s = <<>> THEN 0
    ELSE 10 * DigitsValue(SubSeq(s, 1, Len(s) - 1)) + DigitValue(s[Len(s)])

RECURSIVE StripZeros(_)
StripZeros(s) == IF s # <<>> /\ Head(s) = "0" THEN StripZeros(Tail(s)) ELSE s

\* digit sequences without leading zeros, compared as numbers
RECURSIVE DigitsLeq(_, _)
DigitsLeq(s, u) ==
    IF Len(s) # Len(u) THEN Len(s) < Len(u)
    ELSE IF s = <<>> THEN TRUE
    ELSE IF Head(s) # Head(u) THEN DigitValue(Head(s)) < DigitValue(Head(u))
    ELSE DigitsLeq(Tail(s), Tail(u))

I64MaxDigits == << "9", "2", "2", "3", "3", "7", "2", "0", "3", "6",
                   "8", "5", "4", "7", "7", "5", "8", "0", "7" >>
I64MinDigits == << "9", "2", "2", "3", "3", "7", "2", "0", "3", "6",
                   "8", "5", "4", "7", "7", "5", "8", "0", "8" >>

HasSign(s) == s # <<>> /\ Head(s) \in {"+", "-"}
Unsigned(s) == IF HasSign(s) THEN Tail(s) ELSE s
IsNegative(s) == s # <<>> /\ Head(s) = "-"

SignedValue(s) ==
    IF IsNegative(s) THEN 0 - DigitsValue(Unsigned(s)) ELSE DigitsValue(Unsigned(s))

parse_bool(s) ==
    IF s = <<"t", "r", "u", "e">> THEN Ok(TRUE)
    ELSE IF s = <<"f", "a", "l", "s", "e">> THEN Ok(FALSE)
    ELSE Err("ParseBoolError")

parse_i64(s) ==
    IF /\ IsDigits(Unsigned(s))
       /\ DigitsLeq(StripZeros(Unsigned(s)),
                    IF IsNegative(s) THEN I64MinDigits ELSE I64MaxDigits)
    THEN Ok(SignedValue(s)) ELSE Err("ParseIntError")

\* the f64 grammar: [sign] (inf | infinity | nan | digits [. digits] [exp]),
\* a digit required before or after the point, exp = (e | E) [sign] digits
NonFiniteWords == { <<"i", "n", "f">>, <<"n", "a", "n">>,
                    <<"i", "n", "f", "i", "n", "i", "t", "y">> }
IsNonFiniteWord(s) == to_lowercase(Unsigned(s)) \in NonFiniteWords

ExpAt(s) == IF \E i \in 1..Len(s) : s[i] \in {"e", "E"}
            THEN CHOOSE i \in 1..Len(s) :
                    s[i] \in {"e", "E"} /\ \A j \in 1..(i - 1) : s[j] \notin {"e", "E"}
            ELSE Len(s) + 1
PointAt(s) == IF \E i \in 1..Len(s) : s[i] = "."
              THEN CHOOSE i \in 1..Len(s) :
                      s[i] = "." /\ \A j \in 1..(i - 1) : s[j] # "."
              ELSE Len(s) + 1

\* the parts of an unsigned literal u: the digits before and after the point
\* at p of its significand sig, and its exponent exp after the e at position e
DecimalParts(sig, p, exp, has_exp) ==
    [int |-> SubSeq(sig, 1, p - 1), frac |-> DropFirst(sig, p),
     has_point |-> p <= Len(sig), exp |-> exp, has_exp |-> has_exp]
SplitSignificand(sig, exp, has_exp) == DecimalParts(sig, PointAt(sig), exp, has_exp)
SplitExponent(u, e) == SplitSignificand(SubSeq(u, 1, e - 1), DropFirst(u, e), e <= Len(u))
Decimal(s) == SplitExponent(Unsigned(s), ExpAt(Unsigned(s)))

IsDecimal(d) ==
    /\ Chars(d.int) \cup Chars(d.frac) \subseteq Chars(Digits)
    /\ d.int \o d.frac # <<>>
    /\ d.has_exp => IsDigits(Unsigned(d.exp))

\* an f64: not finite, or a sign, a decimal mantissa without trailing zeros
\* and a power of ten (the literals of the model are short: no rounding)
NonFinite == [finite |-> FALSE, neg |-> FALSE, mant |-> 0, exp |-> 0]
RECURSIVE NormalFloat(_, _, _)
NormalFloat(neg, mant, exp) ==
    IF mant = 0 THEN [finite |-> TRUE, neg |-> FALSE, mant |-> 0, exp |-> 0]
    ELSE IF mant % 10 = 0 THEN NormalFloat(neg, mant \div 10, exp + 1)
    ELSE [finite |-> TRUE, neg |-> neg, mant |-> mant, exp |-> exp]

ExponentValue(d) == IF d.has_exp THEN SignedValue(d.exp) ELSE 0
DecimalValue(neg, d) ==
    NormalFloat(neg, DigitsValue(d.int \o d.frac), ExponentValue(d) - Len(d.frac))

\* digit sequences compared as the fractions 0.s and 0.u
RECURSIVE DigitsBelow(_, _)
DigitsBelow(s, u) ==
    IF u = <<>> THEN FALSE
    ELSE IF s = <<>> THEN Chars(u) # {"0"}
    ELSE IF Head(s) # Head(u) THEN DigitValue(Head(s)) < DigitValue(Head(u))
    ELSE DigitsBelow(Tail(s), Tail(u))

\* The least decimal that rounds to infinity is 2^1024 - 2^970, which is
\* 1.79769313486231580793...e308: a literal of at least that size parses as
\* infinity.
F64InfinityDigits == << "1", "7", "9", "7", "6", "9", "3", "1", "3", "4", "8",
                        "6", "2", "3", "1", "5", "8", "0", "7", "9", "3" >>
TooLarge(sig, magnitude) ==
    /\ sig # <<>>
    /\ \/ magnitude > 308
       \/ magnitude = 308 /\ ~DigitsBelow(sig, F64InfinityDigits)
\* sig is the digits from the first that is not zero, and the power of ten of
\* that digit is the magnitude
Magnitude(sig, d) == TooLarge(sig, Len(sig) - 1 - Len(d.frac) + ExponentValue(d))
Overflows(d) == Magnitude(StripZeros(d.int \o d.frac), d)

DecimalFloat(neg, d) ==
    IF ~IsDecimal(d) THEN Err("ParseFloatError")
    ELSE IF Overflows(d) THEN Ok(NonFinite)
    ELSE Ok(DecimalValue(neg, d))

parse_f64(s) ==
    IF IsNonFiniteWord(s) THEN Ok(NonFinite) ELSE DecimalFloat(IsNegative(s), Decimal(s))

\* serde_json::Number holding an f64
Float(f) == [t |-> "float", v |-> f]

-----------------------------------------------------------------------------
(* MergeStrategy, src/src/merge.rs                                             *)

MergeStrategies == {"Replace", "Deep", "Append"}

\* a deep merge that takes an incoming null for "no value" and keeps base's
RECURSIVE deep_merge_null_is_noop(_, _)
deep_merge_null_is_noop(b, i) ==
    IF is_object(b) /\ is_object(i)
    THEN Obj([k \in DOMAIN b.v \cup DOMAIN i.v |->
                IF k \in DOMAIN i.v /\ ~(i.v[k] = Null /\ k \in DOMAIN b.v)
                THEN IF k \in DOMAIN b.v /\ is_object(b.v[k]) /\ is_object(i.v[k])
                     THEN deep_merge_null_is_noop(b.v[k], i.v[k])
                     ELSE i.v[k]
                ELSE b.v[k]])
    ELSE i

RECURSIVE deep_merge(_, _)
deep_merge(b, i) ==
    IF is_object(b) /\ is_object(i)
    THEN Obj([k \in DOMAIN b.v \cup DOMAIN i.v |->
                IF k \in DOMAIN i.v
                THEN IF k \in DOMAIN b.v /\ is_object(b.v[k]) /\ is_object(i.v[k])
                     THEN deep_merge(b.v[k], i.v[k])
                     ELSE i.v[k]
                ELSE b.v[k]])
    ELSE i

\* an append that puts incoming's elements first
append_merge_incoming_first(b, i) ==
    IF is_array(b) /\ is_array(i)
    THEN Arr(i.v \o b.v)
    ELSE IF is_object(b) /\ is_object(i)
    THEN Obj([k \in DOMAIN b.v \cup DOMAIN i.v |->
                IF k \in DOMAIN i.v
                THEN IF k \in DOMAIN b.v /\ is_array(b.v[k]) /\ is_array(i.v[k])
                     THEN Arr(i.v[k].v \o b.v[k].v)
                     ELSE i.v[k]
                ELSE b.v[k]])
    ELSE i

append_merge(b, i) ==
    IF is_array(b) /\ is_array(i)
    THEN Arr(b.v \o i.v)
    ELSE IF is_object(b) /\ is_object(i)
    THEN Obj([k \in DOMAIN b.v \cup DOMAIN i.v |->
                IF k \in DOMAIN i.v
                THEN IF k \in DOMAIN b.v /\ is_array(b.v[k]) /\ is_array(i.v[k])
                     THEN Arr(b.v[k].v \o i.v[k].v)
                     ELSE i.v[k]
                ELSE b.v[k]])
    ELSE i

\* a Replace that replaces per key and keeps the keys only base holds
merge_replace_per_key(s, b, i) ==
    CASE s = "Replace" ->
            IF is_object(b) /\ is_object(i)
            THEN Obj([k \in DOMAIN b.v \cup DOMAIN i.v |->
                        IF k \in DOMAIN i.v THEN i.v[k] ELSE b.v[k]])
            ELSE i
      [] s = "Deep" -> deep_merge(b, i)
      [] s = "Append" -> append_merge(b, i)

\* a merge that takes an incoming empty object for "no value" and keeps base
merge_empty_is_noop(s, b, i) ==
    CASE i = EmptyObject -> b
      [] i # EmptyObject /\ s = "Replace" -> i
      [] i # EmptyObject /\ s = "Deep" -> deep_merge(b, i)
      [] i # EmptyObject /\ s = "Append" -> append_merge(b, i)

merge(s, b, i) ==
    CASE s = "Replace" -> i
      [] s = "Deep" -> deep_merge(b, i)
      [] s = "Append" -> append_merge(b, i)

-----------------------------------------------------------------------------
(* Source::priority, src/src/source.rs                                         *)

SourceTypes == {"Default", "ConfigFile", "Environment", "Cli"}

\* the defaults ranked above every other source
priority_defaults_on_top(source_type) ==
    CASE source_type = "Default" -> 4
      [] source_type = "ConfigFile" -> 1
      [] source_type = "Environment" -> 2
      [] source_type = "Cli" -> 3

priority(source_type) ==
    CASE source_type = "Default" -> 0
      [] source_type = "ConfigFile" -> 1
      [] source_type = "Environment" -> 2
      [] source_type = "Cli" -> 3

-----------------------------------------------------------------------------
(* ConfigMerger::merge_sources, src/src/merge.rs. A source is a pair           *)
(* <<value, priority>>.                                                        *)

\* the number of elements of s whose priority is at most, or below, p
CountUpTo(s, p) == Cardinality({j \in 1..Len(s) : s[j][2] <= p})
CountBelow(s, p) == Cardinality({j \in 1..Len(s) : s[j][2] < p})

InsertAt(s, n, e) == SubSeq(s, 1, n) \o <<e>> \o SubSeq(s, n + 1, Len(s))

\* an unstable sort: an element goes before the elements of its priority
RECURSIVE sort_by_key_ties_reversed(_)
sort_by_key_ties_reversed(s) ==
    IF s = <<>> THEN <<>>
    ELSE LET rest == sort_by_key_ties_reversed(SubSeq(s, 1, Len(s) - 1))
             e == s[Len(s)]
         IN InsertAt(rest, CountBelow(rest, e[2]), e)

\* a sort by descending priority
RECURSIVE sort_by_key_descending(_)
sort_by_key_descending(s) ==
    IF s = <<>> THEN <<>>
    ELSE LET rest == sort_by_key_descending(SubSeq(s, 1, Len(s) - 1))
             e == s[Len(s)]
         IN InsertAt(rest,
                Cardinality({j \in 1..Len(rest) : rest[j][2] >= e[2]}), e)

\* slice::sort_by_key is stable: an element goes behind the elements of its
\* priority that precede it in the input
RECURSIVE sort_by_key(_)
sort_by_key(s) ==
    IF s = <<>> THEN <<>>
    ELSE LET rest == sort_by_key(SubSeq(s, 1, Len(s) - 1))
             e == s[Len(s)]
         IN InsertAt(rest, CountUpTo(rest, e[2]), e)

RECURSIVE fold_merge(_, _, _)
fold_merge(s, acc, sorted) ==
    IF sorted = <<>> THEN acc
    ELSE fold_merge(s, merge(s, acc, sorted[1][1]), Tail(sorted))

\* a merge in the order of the input, without the sort
merge_sources_unsorted(s, source_values) == fold_merge(s, EmptyObject, source_values)

merge_sources(s, source_values) == fold_merge(s, EmptyObject, sort_by_key(source_values))

\* ConfigMerger::merge_with_precedence: the values of a HashMap from names to
\* pairs, in the order in which the map is iterated, which is not specified,
\* then sorted and folded as in merge_sources
merge_with_precedence(s, named) ==
    {merge_sources(s, [i \in 1..Cardinality(DOMAIN named) |-> named[into_iter[i]]]) :
        into_iter \in {o \in [1..Cardinality(DOMAIN named) -> DOMAIN named] :
                          \A i, j \in DOMAIN o : o[i] = o[j] => i = j}}

-----------------------------------------------------------------------------
(* The values the merge is applied to: scalars, null, arrays, and objects     *)
(* over the keys a, b whose a may hold a nested object over the keys x, y,     *)
(* whose y may hold an object over the key z.                                  *)

Scalars == {Num(1), Num(2)}
Arrays == {Arr(<<Num(1)>>), Arr(<<Num(2)>>)}
Leaves == {Null} \cup Scalars \cup Arrays

\* the objects over the keys ks with values in vs (every subset of the keys)
ObjectsOver(ks, vs) ==
    UNION {{Obj(f) : f \in [d -> vs]} : d \in SUBSET ks}

DeepestObjects == ObjectsOver({kZ}, Scalars)

InnerObjects ==
    {x \in ObjectsOver({kX, kY}, Leaves \cup DeepestObjects) :
        /\ Holds(x, kX) => x.v[kX] \in Leaves
        /\ Holds(x, kY) => x.v[kY] \in {Num(1)} \cup DeepestObjects}

TopObjects ==
    {x \in ObjectsOver({kA, kB}, Leaves \cup InnerObjects) :
        Holds(x, kB) => x.v[kB] \in {Num(1), Arr(<<Num(1)>>)}}

MergeValues == TopObjects \cup Leaves

-----------------------------------------------------------------------------
(* SpecMerge: MergeStrategy::merge applied to one base and one incoming.       *)

InitMerge ==
    /\ mpc = "call"
    /\ strategy \in MergeStrategies
    /\ base \in MergeValues
    /\ incoming \in MergeValues
    /\ merged = Null
    /\ spc = "idle" /\ pairs = <<>> /\ result = Null
    /\ NoBuilder /\ NoUnit

Merge ==
    /\ mpc = "call"
    /\ merged' = merge(strategy, base, incoming)
    /\ mpc' = "returned"
    /\ UNCHANGED <<strategy, base, incoming, sourcesVars, builderVars, worldVars,
                   unitVars>>

NextMerge == Merge

SpecMerge == InitMerge /\ [][NextMerge]_vars

MergeReturned(s) == mpc = "returned" /\ strategy = s

\* C2: under Deep, at every key and at every nesting depth of two objects: a
\* key both hold with objects is merged recursively, any other key incoming
\* holds has incoming's value (null included, the key staying present), a key
\* only base holds keeps base's value, and no other key appears.
RECURSIVE DeepMerged(_, _, _)
DeepMerged(b, i, r) ==
    /\ is_object(r)
    /\ DOMAIN r.v = DOMAIN b.v \cup DOMAIN i.v
    /\ \A k \in DOMAIN r.v :
          IF k \in DOMAIN b.v /\ k \in DOMAIN i.v
                /\ is_object(b.v[k]) /\ is_object(i.v[k])
          THEN DeepMerged(b.v[k], i.v[k], r.v[k])
          ELSE IF k \in DOMAIN i.v THEN r.v[k] = i.v[k] ELSE r.v[k] = b.v[k]

C2_DeepMergeEveryDepth ==
    (MergeReturned("Deep") /\ is_object(base) /\ is_object(incoming))
        => DeepMerged(base, incoming, merged)

C2_Witness ==
    /\ MergeReturned("Deep")
    /\ Holds(base, kA) /\ Holds(incoming, kA) /\ Holds(base, kB)
    /\ ~Holds(incoming, kB)
    /\ is_object(base.v[kA]) /\ is_object(incoming.v[kA])
    /\ Holds(base.v[kA], kX) /\ base.v[kA].v[kX] = Num(1)
    /\ Holds(incoming.v[kA], kX) /\ incoming.v[kA].v[kX] = Null
    /\ Holds(base.v[kA], kY) /\ Holds(incoming.v[kA], kY)
    /\ Holds(base.v[kA].v[kY], kZ) /\ is_object(incoming.v[kA].v[kY])
    /\ ~Holds(incoming.v[kA].v[kY], kZ)
    /\ merged.v[kA].v[kX] = Null
    /\ merged.v[kA].v[kY].v[kZ] = base.v[kA].v[kY].v[kZ]
    /\ merged.v[kB] = base.v[kB]

\* C4 as claimed: under Replace a top-level key that base holds and incoming
\* does not hold is still present, with base's value, in the merged result.
C4_ReplaceKeepsBaseKeys ==
    (MergeReturned("Replace") /\ is_object(base) /\ is_object(incoming))
        => \A k \in Keys(base) \ Keys(incoming) :
              Holds(merged, k) /\ merged.v[k] = base.v[k]

\* C4 amended: under Replace incoming supersedes base as a whole: at the keys
\* both hold the merged value is incoming's value, never a merge of the two,
\* and a top-level key that base holds and incoming does not is absent.
C4_ReplaceDropsBaseKeys ==
    (MergeReturned("Replace") /\ is_object(base) /\ is_object(incoming))
        => /\ is_object(merged)
           /\ \A k \in Keys(base) \ Keys(incoming) : ~Holds(merged, k)
           /\ \A k \in Keys(base) \cap Keys(incoming) :
                 Holds(merged, k) /\ merged.v[k] = incoming.v[k]

C4_Witness ==
    /\ MergeReturned("Replace")
    /\ Holds(base, kB) /\ is_object(incoming) /\ ~Holds(incoming, kB)
    /\ Holds(base, kA) /\ Holds(incoming, kA)
    /\ is_object(base.v[kA]) /\ is_object(incoming.v[kA])
    /\ Holds(base.v[kA], kX) /\ ~Holds(incoming.v[kA], kX)
    /\ ~Holds(merged, kB) /\ ~Holds(merged.v[kA], kX)

\* C5: under Append, at a key where base and incoming both hold an array the
\* merged array is base's elements followed by incoming's, in order, its
\* length the sum of the two; at a key both hold where either value is not an
\* array, the merged value is incoming's.
Concatenated(b, i, r) ==
    /\ Len(r) = Len(b) + Len(i)
    /\ \A j \in 1..Len(b) : r[j] = b[j]
    /\ \A j \in 1..Len(i) : r[Len(b) + j] = i[j]

C6_AppendRecursesIntoObjects ==
    (MergeReturned("Append") /\ is_object(base) /\ is_object(incoming))
        => \A k \in Keys(base) \cap Keys(incoming) :
              (is_object(base.v[k]) /\ is_object(incoming.v[k]))
                  => /\ is_object(merged.v[k])
                     /\ \A n \in Keys(base.v[k]) \ Keys(incoming.v[k]) :
                           /\ Holds(merged.v[k], n)
                           /\ merged.v[k].v[n] = base.v[k].v[n]
                     /\ \A n \in Keys(base.v[k]) \cap Keys(incoming.v[k]) :
                           (is_array(base.v[k].v[n]) /\ is_array(incoming.v[k].v[n]))
                               => /\ Holds(merged.v[k], n)
                                  /\ is_array(merged.v[k].v[n])
                                  /\ Concatenated(base.v[k].v[n].v,
                                                  incoming.v[k].v[n].v,
                                                  merged.v[k].v[n].v)

-----------------------------------------------------------------------------
(* SpecSources: ConfigMerger::new(strategy).merge_sources(pairs), for every    *)
(* list of at most MaxSources pairs <<value, priority>>.                       *)

MaxSources == 3

Priorities == {priority(t) : t \in SourceTypes}

SourceValues ==
    { Obj([k \in {kA} |-> Num(1)]),
      Obj([k \in {kA, kB} |-> IF k = kA THEN Num(2) ELSE Num(1)]),
      Obj([k \in {kA, kB} |->
             IF k = kA THEN Obj([n \in {kX} |-> Num(1)]) ELSE Num(2)]),
      Obj([k \in {kA} |-> Obj([n \in {kY} |-> Num(1)])]),
      Obj([k \in {kB} |-> Num(1)]),
      Arr(<<Num(1)>>) }

SeqsUpTo(n, S) == UNION {[1..m -> S] : m \in 0..n}

InitSources ==
    /\ spc = "call"
    /\ strategy \in MergeStrategies
    /\ pairs \in SeqsUpTo(MaxSources, SourceValues \X Priorities)
    /\ result = Null
    /\ mpc = "idle" /\ base = Null /\ incoming = Null /\ merged = Null
    /\ NoBuilder /\ NoUnit

MergeSources ==
    /\ spc = "call"
    /\ result' = merge_sources(strategy, pairs)
    /\ spc' = "returned"
    /\ UNCHANGED <<pairs, mpc, strategy, base, incoming, merged, builderVars,
                   worldVars, unitVars>>

NextSources == MergeSources

SpecSources == InitSources /\ [][NextSources]_vars

SourcesReturned(s) == spc = "returned" /\ strategy = s

KeysOfPairs == UNION {Keys(pairs[i][1]) : i \in 1..Len(pairs)}
AllObjects == \A i \in 1..Len(pairs) : is_object(pairs[i][1])

\* pair m is merged before pair j: lower priority, or equal priority and
\* earlier in the list
FoldedBefore(m, j) ==
    \/ pairs[m][2] < pairs[j][2]
    \/ pairs[m][2] = pairs[j][2] /\ m < j

\* C1 as claimed: under Deep, if two sources with ranks p1 < p2 hold the same
\* key with different values and no source ranked above p2 holds that key,
\* the merged value at that key is the p2 source's value.
C1_HigherRankValueWins ==
    (SourcesReturned("Deep") /\ AllObjects)
        => \A i, j \in 1..Len(pairs) : \A k \in KeysOfPairs :
              ( /\ pairs[i][2] < pairs[j][2]
                /\ Holds(pairs[i][1], k) /\ Holds(pairs[j][1], k)
                /\ pairs[i][1].v[k] # pairs[j][1].v[k]
                /\ \A m \in 1..Len(pairs) :
                      pairs[m][2] > pairs[j][2] => ~Holds(pairs[m][1], k) )
              => Holds(result, k) /\ result.v[k] = pairs[j][1].v[k]

\* C1 amended: under Deep, for sources that are objects, if two sources with
\* ranks p1 < p2 hold the same key with different values, the p2 source's
\* value there is not an object, and no source ranked above p2 nor any source
\* of rank p2 added after it holds that key, the merged value at that key is
\* the p2 source's value, whatever the order of the list.
C1_HighestRankScalarWins ==
    (SourcesReturned("Deep") /\ AllObjects)
        => \A i, j \in 1..Len(pairs) : \A k \in KeysOfPairs :
              ( /\ pairs[i][2] < pairs[j][2]
                /\ Holds(pairs[i][1], k) /\ Holds(pairs[j][1], k)
                /\ pairs[i][1].v[k] # pairs[j][1].v[k]
                /\ ~is_object(pairs[j][1].v[k])
                /\ \A m \in 1..Len(pairs) \ {j} :
                      Holds(pairs[m][1], k) => FoldedBefore(m, j) )
              => Holds(result, k) /\ result.v[k] = pairs[j][1].v[k]

\* the higher rank is added first, the lower rank last, both hold the key a
C1_Witness ==
    /\ SourcesReturned("Deep") /\ AllObjects /\ Len(pairs) = 3
    /\ pairs[1][2] = 3 /\ pairs[2][2] = 1 /\ pairs[3][2] = 2
    /\ \A i \in 1..3 : Holds(pairs[i][1], kA)
    /\ pairs[1][1].v[kA] = Num(2) /\ pairs[3][1].v[kA] = Num(1)
    /\ is_object(pairs[2][1].v[kA])
    /\ result.v[kA] = Num(2)

\* C3: under Replace the merged result of a non-empty list is exactly the
\* value of the source that is last in ascending-priority order (of equal
\* priorities, the last added): a key only an earlier-merged source holds is
\* absent, at the top level and inside an object both hold.
C3_ReplaceYieldsLastSource ==
    (SourcesReturned("Replace") /\ pairs # <<>>)
        => \E j \in 1..Len(pairs) :
              /\ \A m \in 1..Len(pairs) \ {j} : FoldedBefore(m, j)
              /\ result = pairs[j][1]
              /\ \A i \in 1..Len(pairs) :
                    /\ \A k \in Keys(pairs[i][1]) \ Keys(pairs[j][1]) :
                          ~Holds(result, k)
                    /\ \A k \in Keys(pairs[i][1]) \cap Keys(pairs[j][1]) :
                          \A n \in Keys(pairs[i][1].v[k]) \ Keys(pairs[j][1].v[k]) :
                              ~Holds(result.v[k], n)

C3_Witness ==
    /\ SourcesReturned("Replace") /\ Len(pairs) = 2
    /\ pairs[1][2] > pairs[2][2]
    /\ Holds(pairs[2][1], kB) /\ Holds(pairs[2][1], kA)
    /\ Holds(pairs[2][1].v[kA], kX)
    /\ Holds(pairs[1][1], kA) /\ Holds(pairs[1][1].v[kA], kY)
    /\ ~Holds(result, kB) /\ ~Holds(result.v[kA], kX)
    /\ Holds(result.v[kA], kY)

\* C7 as claimed: of two equal-priority sources that hold a key (no other
\* source holding it), the one added later supplies the merged value under
\* Deep, and the one added earlier never does.
C7_LaterOfEqualPrioritySupplies ==
    (SourcesReturned("Deep") /\ AllObjects)
        => \A i, j \in 1..Len(pairs) : \A k \in KeysOfPairs :
              ( /\ i < j /\ pairs[i][2] = pairs[j][2]
                /\ Holds(pairs[i][1], k) /\ Holds(pairs[j][1], k)
                /\ \A m \in 1..Len(pairs) \ {i, j} : ~Holds(pairs[m][1], k) )
              => Holds(result, k) /\ result.v[k] = pairs[j][1].v[k]

\* C7 amended: the sources are sorted by ascending priority with a stable
\* sort, sources of equal priority being folded in the order in which they
\* were added; so of two equal-priority object sources that hold a key, the
\* one added later supplies the merged value under Deep when its value there
\* is not an object and no source folded after it holds the key (an object
\* there is merged recursively into what the sources folded before it left
\* at the key, and the merged object holds at least its keys).
WithPriority(s, p) == LET Has(e) == e[2] = p IN SelectSeq(s, Has)

C7_StableAscendingFold ==
    /\ \A a, b \in 1..Len(pairs) :
          a < b => sort_by_key(pairs)[a][2] <= sort_by_key(pairs)[b][2]
    /\ \A p \in Priorities :
          WithPriority(sort_by_key(pairs), p) = WithPriority(pairs, p)
    /\ (SourcesReturned("Deep") /\ AllObjects)
        => \A i, j \in 1..Len(pairs) : \A k \in KeysOfPairs :
              ( /\ i < j /\ pairs[i][2] = pairs[j][2]
                /\ Holds(pairs[i][1], k) /\ Holds(pairs[j][1], k)
                /\ \A m \in 1..Len(pairs) \ {j} :
                      Holds(pairs[m][1], k) => FoldedBefore(m, j) )
              => /\ Holds(result, k)
                 /\ IF is_object(pairs[j][1].v[k])
                    THEN /\ is_object(result.v[k])
                         /\ \A n \in Keys(pairs[j][1].v[k]) :
                               Holds(result.v[k], n)
                    ELSE result.v[k] = pairs[j][1].v[k]

\* two sources of one priority both hold a, a higher-ranked source was added
\* first and does not hold it
C7_Witness ==
    /\ SourcesReturned("Deep") /\ Len(pairs) = 3
    /\ pairs[1][2] = 2 /\ pairs[2][2] = 1 /\ pairs[3][2] = 1
    /\ is_object(pairs[1][1]) /\ ~Holds(pairs[1][1], kA)
    /\ Holds(pairs[2][1], kA) /\ pairs[2][1].v[kA] = Num(1)
    /\ Holds(pairs[3][1], kA) /\ pairs[3][1].v[kA] = Num(2)
    /\ Holds(result, kA) /\ result.v[kA] = Num(2)

-----------------------------------------------------------------------------
(* serde_json::from_str on a text without \b and \u escapes: the value of the  *)
(* text, or a failure. A parser returns the value and the next position.       *)

Whitespace == {" ", "\t", "\n", "\r"}
Quote == "\""
Backslash == "\\"
Parsed(x, i) == [ok |-> TRUE, value |-> x, next |-> i]
Fail == [ok |-> FALSE]

RECURSIVE SkipWs(_, _)
SkipWs(s, i) == IF i <= Len(s) /\ s[i] \in Whitespace THEN SkipWs(s, i + 1) ELSE i

StartsAt(s, i, word) ==
    i + Len(word) - 1 <= Len(s) /\ SubSeq(s, i, i + Len(word) - 1) = word

Unescape(c) ==
    CASE c = "n" -> "\n" [] c = "t" -> "\t" [] c = "r" -> "\r" [] c = "f" -> "\f"
      [] OTHER -> c

\* the characters after an opening quote, up to the closing one
RECURSIVE json_string(_, _, _)
json_string(s, i, acc) ==
    IF i > Len(s) \/ s[i] \in {"\t", "\n", "\r", "\f"} THEN Fail
    ELSE IF s[i] = Quote THEN Parsed(acc, i + 1)
    ELSE IF s[i] = Backslash
         THEN IF i + 1 <= Len(s) /\ s[i + 1] \in {Quote, Backslash, "/", "n", "t", "r", "f"}
              THEN json_string(s, i + 2, Append(acc, Unescape(s[i + 1])))
              ELSE Fail
    ELSE json_string(s, i + 1, Append(acc, s[i]))

NumberChars == Chars(Digits) \cup {"-", "+", ".", "e", "E"}
RECURSIVE NumberEnd(_, _)
NumberEnd(s, i) == IF i <= Len(s) /\ s[i] \in NumberChars THEN NumberEnd(s, i + 1) ELSE i

\* -? (0 | [1-9][0-9]*) (. [0-9]+)? ((e | E) (+ | -)? [0-9]+)?
IsJsonDecimal(tok, d) ==
    /\ tok # <<>> /\ Head(tok) # "+"
    /\ IsDigits(d.int)
    /\ Len(d.int) > 1 => Head(d.int) # "0"
    /\ d.has_point => IsDigits(d.frac)
    /\ d.has_exp => IsDigits(Unsigned(d.exp))

IsJsonInteger(tok) == Chars(tok) \subseteq Chars(Digits) \cup {"-"}

\* an integer literal is a u64 or an i64 when it fits, and an f64 otherwise
\* (the integer literals of the model fit); -0 is the float zero
NumberValue(tok, d) ==
    IF IsJsonInteger(tok) /\ ~(IsNegative(tok) /\ DigitsValue(d.int) = 0)
    THEN Num(SignedValue(tok))
    ELSE Float(DecimalValue(IsNegative(tok), d))

\* a number that is not finite as an f64 is an error ("number out of range")
NumberToken(tok, d, next) ==
    IF IsJsonDecimal(tok, d) /\ ~(~IsJsonInteger(tok) /\ Overflows(d))
    THEN Parsed(NumberValue(tok, d), next) ELSE Fail
NumberUpTo(tok, next) == NumberToken(tok, Decimal(tok), next)
NumberFrom(s, i, next) == NumberUpTo(SubSeq(s, i, next - 1), next)
json_number(s, i) == NumberFrom(s, i, NumberEnd(s, i))

IsAt(s, i, c) == i <= Len(s) /\ s[i] = c
StringValue(r) == IF r.ok THEN Parsed(Str(r.value), r.next) ELSE Fail
ColonAfter(s, k) ==
    IF k.ok /\ IsAt(s, SkipWs(s, k.next), ":")
    THEN Parsed(k.value, SkipWs(s, k.next) + 1) ELSE Fail
KeyBeforeColon(s, i) ==
    IF IsAt(s, i, Quote) THEN ColonAfter(s, json_string(s, i + 1, <<>>)) ELSE Fail
Frame(kind, key) == [kind |-> kind, items |-> <<>>, entries |-> NoEntries, key |-> key]

\* null, true, false, a string or a number at position i
json_scalar(s, i) ==
    IF StartsAt(s, i, <<"n", "u", "l", "l">>) THEN Parsed(Null, i + 4)
    ELSE IF StartsAt(s, i, <<"t", "r", "u", "e">>) THEN Parsed(Bool(TRUE), i + 4)
    ELSE IF StartsAt(s, i, <<"f", "a", "l", "s", "e">>) THEN Parsed(Bool(FALSE), i + 5)
    ELSE IF s[i] = Quote THEN StringValue(json_string(s, i + 1, <<>>))
    ELSE json_number(s, i)

\* the key of a member and the colon after it
json_key(s, i0) == KeyBeforeColon(s, SkipWs(s, i0))

\* The arrays and objects that are open are kept on a stack, each with the
\* elements or members read so far and, for an object, the key of the member
\* being read. have is <<>> where a value is expected, and <<x>> after the
\* value x has been read.
RECURSIVE json_loop(_, _, _, _)
json_loop(s, i0, stack, have) ==
    LET i == SkipWs(s, i0)
        top == stack[Len(stack)]
        rest == SubSeq(stack, 1, Len(stack) - 1)
    IN
    IF have = <<>>
    THEN IF i > Len(s) THEN Fail
         ELSE IF s[i] = "["
              THEN IF IsAt(s, SkipWs(s, i + 1), "]")
                   THEN json_loop(s, SkipWs(s, i + 1) + 1, stack, <<Arr(<<>>)>>)
                   ELSE json_loop(s, i + 1, Append(stack, Frame("arr", <<>>)), <<>>)
         ELSE IF s[i] = "{"
              THEN IF IsAt(s, SkipWs(s, i + 1), "}")
                   THEN json_loop(s, SkipWs(s, i + 1) + 1, stack, <<EmptyObject>>)
                   ELSE IF json_key(s, i + 1).ok
                   THEN json_loop(s, json_key(s, i + 1).next,
                                  Append(stack, Frame("obj", json_key(s, i + 1).value)),
                                  <<>>)
                   ELSE Fail
         ELSE IF json_scalar(s, i).ok
              THEN json_loop(s, json_scalar(s, i).next, stack, <<json_scalar(s, i).value>>)
         ELSE Fail
    ELSE IF stack = <<>> THEN Parsed(have[1], i0)
    ELSE IF i > Len(s) THEN Fail
    ELSE IF top.kind = "arr"
         THEN IF s[i] = ","
              THEN json_loop(s, i + 1,
                             Append(rest, [top EXCEPT !.items = Append(@, have[1])]), <<>>)
              ELSE IF s[i] = "]"
              THEN json_loop(s, i + 1, rest, <<Arr(Append(top.items, have[1]))>>)
              ELSE Fail
    ELSE IF s[i] = ","
         THEN IF json_key(s, i + 1).ok
              THEN json_loop(s, json_key(s, i + 1).next,
                             Append(rest, [top EXCEPT
                                              !.entries = Insert(@, top.key, have[1]),
                                              !.key = json_key(s, i + 1).value]),
                             <<>>)
              ELSE Fail
    ELSE IF s[i] = "}"
         THEN json_loop(s, i + 1, rest, <<Obj(Insert(top.entries, top.key, have[1]))>>)
    ELSE Fail

json_value(s, i) == json_loop(s, i, <<>>, <<>>)

\* serde_json::from_str::<Value>: one value and nothing after it
Complete(s, r) ==
    IF r.ok /\ SkipWs(s, r.next) > Len(s) THEN Ok(r.value) ELSE Err("Serialization")
from_str(s) == Complete(s, json_value(s, 1))

\* serde_json::from_str::<Vec<Value>>
AsVec(r) == IF r.ok /\ is_array(r.value) THEN r ELSE Err("Serialization")
from_str_vec(s) == AsVec(from_str(s))

-----------------------------------------------------------------------------
(* Environment, src/src/environment.rs                                         *)

Environment_new ==
    [impl |-> "Environment", prefix |-> None, separator |-> <<"_">>,
     case_sensitive |-> FALSE, overrides |-> NoEntries, field_mappings |-> NoEntries]

with_prefix(self, prefix) == [self EXCEPT !.prefix = Some(prefix)]
separator(self, sep) == [self EXCEPT !.separator = sep]
case_sensitive(self, sensitive) == [self EXCEPT !.case_sensitive = sensitive]
override_with(self, key, value) == [self EXCEPT !.overrides = Insert(@, key, value)]
with_field_mapping(self, field_name, env_key) ==
    [self EXCEPT !.field_mappings = Insert(@, field_name, env_key)]

\* json!(n) of an f64: null unless n is finite
json_f64(n) == IF n.finite THEN Float(n) ELSE Null

\* the steps of parse_env_value, given what each parse of value returns
env_value(value, bool, int, float, array, object) ==
    IF bool.ok THEN Bool(bool.value)
    ELSE IF int.ok THEN Num(int.value)
    ELSE IF float.ok THEN json_f64(float.value)
    ELSE IF starts_with(value, <<"[">>) /\ ends_with(value, <<"]">>) /\ array.ok
         THEN array.value
    ELSE IF starts_with(value, <<"{">>) /\ ends_with(value, <<"}">>) /\ object.ok
         THEN object.value
    ELSE Str(value)

parse_env_value(value) ==
    env_value(value, parse_bool(value), parse_i64(value), parse_f64(value),
              from_str_vec(value), from_str(value))

\* the prefix and a variable name as the prefix filter compares them
prefix_str(self) ==
    IF self.case_sensitive THEN self.prefix[1] ELSE to_uppercase(self.prefix[1])
key_check(self, key) == IF self.case_sensitive THEN key ELSE to_uppercase(key)

passes_prefix(self, key) ==
    self.prefix = None \/ starts_with(key_check(self, key), prefix_str(self))

\* the key of the result under which a variable that passes is inserted
flat_key(self, key) ==
    IF self.prefix = None THEN to_lowercase(key)
    ELSE to_lowercase(trim_start_matches(
             DropFirst(key_check(self, key), Len(prefix_str(self))),
             self.separator))

\* the values a loop of inserts over table (a HashMap, or env::vars()) can
\* leave at result key k: the loop visits the entries in an order that is not
\* specified, and the last entry inserted at k stays
Inserted(self, table, k) ==
    {parse_env_value(table[n]) :
        n \in {m \in DOMAIN table : passes_prefix(self, m) /\ flat_key(self, m) = k}}

FlatKeys(self, table) ==
    {flat_key(self, n) : n \in {m \in DOMAIN table : passes_prefix(self, m)}}

\* the objects that hold at each key one of the values allowed there
ObjectsWith(allowed) ==
    {Obj(f) : f \in {g \in [DOMAIN allowed -> UNION {allowed[k] : k \in DOMAIN allowed}] :
                        \A k \in DOMAIN allowed : g[k] \in allowed[k]}}

\* the overrides first, the variables of the environment after them
Overriding_env_last(late, early) == IF early # {} THEN early ELSE late

\* the variables of the environment first, the overrides after them
Overriding(late, early) == IF late # {} THEN late ELSE early
collect_with_flat_keys(self, e) ==
    LET ks == FlatKeys(self, e) \cup FlatKeys(self, self.overrides)
        allowed == [k \in ks |-> Overriding(Inserted(self, self.overrides, k),
                                            Inserted(self, e, k))]
    IN  {Ok(x) : x \in ObjectsWith(allowed)}

\* the value of a mapped field: the override of its key, else the variable
looked_up(env_key, overrides, e) ==
    IF env_key \in DOMAIN overrides THEN Some(overrides[env_key])
    ELSE IF env_key \in DOMAIN e THEN Some(e[env_key])
    ELSE None
Coerced(raw) == IF raw = None THEN None ELSE Some(parse_env_value(raw[1]))
mapped_value(self, e, field) ==
    Coerced(looked_up(self.field_mappings[field], self.overrides, e))

\* with field mappings: the mapped fields, then each variable that passes the
\* prefix and is the key of no mapping, unless its key is in the result (of
\* several variables with one key the first visited stays)
MappedThenRest_overwriting(self, values, rest) ==
    ObjectsWith([k \in {fld \in DOMAIN values : values[fld] # None}
                         \cup FlatKeys(self, rest) |->
                    IF k \in FlatKeys(self, rest)
                    THEN Inserted(self, rest, k) ELSE {values[k][1]}])

MappedThenRest(self, values, rest) ==
    ObjectsWith([k \in {fld \in DOMAIN values : values[fld] # None}
                         \cup FlatKeys(self, rest) |->
                    IF k \in DOMAIN values /\ values[k] # None
                    THEN {values[k][1]} ELSE Inserted(self, rest, k)])

collect_with_field_mappings(self, e) ==
    LET keyed == {self.field_mappings[fld] : fld \in DOMAIN self.field_mappings}
        rest == IF self.prefix = None THEN NoEntries
                ELSE [n \in {m \in DOMAIN e : m \notin keyed} |-> e[n]]
        values == [fld \in DOMAIN self.field_mappings |-> mapped_value(self, e, fld)]
    IN  {Ok(x) : x \in MappedThenRest(self, values, rest)}

Environment_collect(self, e) ==
    IF DOMAIN self.field_mappings # {}
    THEN collect_with_field_mappings(self, e)
    ELSE collect_with_flat_keys(self, e)

\* [String]::join
RECURSIVE join(_, _)
join(parts, sep) ==
    IF parts = <<>> THEN <<>>
    ELSE IF Len(parts) = 1 THEN parts[1]
    ELSE parts[1] \o sep \o join(Tail(parts), sep)

\* the one variable name of a point query: the prefix and the parts of the
\* path, joined by the separator
build_env_key(self, path) ==
    LET parts == (IF self.prefix # None THEN <<self.prefix[1]>> ELSE <<>>) \o path
    IN  IF self.case_sensitive THEN join(parts, self.separator)
        ELSE to_uppercase(join(parts, self.separator))

Environment_has_value(self, key, e) ==
    build_env_key(self, <<key>>) \in DOMAIN self.overrides \cup DOMAIN e

Environment_get_value(self, key, e) ==
    Coerced(looked_up(build_env_key(self, <<key>>), self.overrides, e))

-----------------------------------------------------------------------------
(* Cli, src/src/cli.rs                                                         *)

\* Number::from_f64 gives no number unless n is finite
cli_value(value, bool, int, float, array) ==
    IF bool.ok THEN Bool(bool.value)
    ELSE IF int.ok THEN Num(int.value)
    ELSE IF float.ok /\ float.value.finite THEN Float(float.value)
    ELSE IF starts_with(value, <<"[">>) /\ ends_with(value, <<"]">>) /\ array.ok
         THEN array.value
    ELSE Str(value)

parse_value(value) ==
    cli_value(value, parse_bool(value), parse_i64(value), parse_f64(value),
              from_str_vec(value))

\* the while loop of from_vec, i counting from 1: a long flag --key takes the
\* next argument unless that starts with --, a short flag -k takes it unless
\* it starts with -, and a flag that takes none is true
RECURSIVE from_vec_loop(_, _, _)
from_vec_loop(args, i, parsed_values) ==
    LET long == starts_with(args[i], <<"-", "-">>)
        short == ~long /\ starts_with(args[i], <<"-">>) /\ Len(args[i]) = 2
        dashes == IF long THEN <<"-", "-">> ELSE <<"-">>
        takes == i + 1 <= Len(args) /\ ~starts_with(args[i + 1], dashes)
    IN  IF i > Len(args) THEN parsed_values
        ELSE IF long \/ short
        THEN from_vec_loop(args, IF takes THEN i + 2 ELSE i + 1,
                           Insert(parsed_values, trim_start_matches(args[i], dashes),
                                  IF takes THEN parse_value(args[i + 1])
                                  ELSE Bool(TRUE)))
        ELSE from_vec_loop(args, i + 1, parsed_values)

\* args[0], the program name, is skipped
from_vec(args) ==
    [impl |-> "Cli", parsed_values |-> from_vec_loop(args, 2, NoEntries),
     field_mappings |-> NoEntries]

Cli_with_field_mapping(self, field_name, cli_key) ==
    [self EXCEPT !.field_mappings = Insert(@, field_name, cli_key)]

\* the field mappings are not read
Cli_collect(self) == {Ok(Obj(self.parsed_values))}

-----------------------------------------------------------------------------
(* ConfigFormat and Config, src/src/config.rs. The content of a file is the    *)
(* table of the formats in which its text parses, with the value of each.      *)

ConfigFormats == {"Json", "Yaml", "Toml"}

from_extension(ext) ==
    LET e == to_lowercase(ext) IN
    IF e = <<"j", "s", "o", "n">> THEN Some("Json")
    ELSE IF e = <<"y", "a", "m", "l">> \/ e = <<"y", "m", "l">> THEN Some("Yaml")
    ELSE IF e = <<"t", "o", "m", "l">> THEN Some("Toml")
    ELSE None

parse(format, content) ==
    IF format \in DOMAIN content THEN Ok(content[format]) ELSE Err("Serialization")

\* Path::file_name and Path::extension of a path that ends in a file name
LastAt(s, c) ==
    IF \E i \in 1..Len(s) : s[i] = c
    THEN CHOOSE i \in 1..Len(s) : s[i] = c /\ \A j \in (i + 1)..Len(s) : s[j] # c
    ELSE 0
file_name(path) == DropFirst(path, LastAt(path, "/"))
extension(path) ==
    IF LastAt(file_name(path), ".") <= 1 THEN None
    ELSE Some(DropFirst(file_name(path), LastAt(file_name(path), ".")))

format_of(path) ==
    IF extension(path) = None THEN None ELSE from_extension(extension(path)[1])

\* fs::read_to_string: the content, or the error of a file that is not there
File(content) == [exists |-> TRUE, content |-> content]
Missing == [exists |-> FALSE, content |-> NoEntries]
read_to_string(f, path) ==
    IF path \in DOMAIN f /\ f[path].exists THEN Ok(f[path].content) ELSE Err("Io")

\* load: what it returns and the Config it leaves
load(self, f) ==
    LET read == read_to_string(f, self.path) IN
    IF read.ok
    THEN IF parse(self.format, read.value).ok
         THEN [returned |-> Ok(Unit),
               self |-> [self EXCEPT !.data = Some(parse(self.format, read.value).value)]]
         ELSE [returned |-> parse(self.format, read.value), self |-> self]
    ELSE IF self.required THEN [returned |-> Err("Io"), self |-> self]
    ELSE [returned |-> Ok(Unit), self |-> [self EXCEPT !.data = Some(EmptyObject)]]

Config(path, format, required) ==
    [impl |-> "Config", path |-> path, format |-> format, required |-> required,
     data |-> None]

\* the file read before its extension is looked at
from_file_reading_first(path, f) ==
    IF ~read_to_string(f, path).ok THEN Err("Io")
    ELSE IF format_of(path) = None THEN Err("Config")
    ELSE LET l == load(Config(path, format_of(path)[1], TRUE), f) IN
         IF l.returned.ok THEN Ok(l.self) ELSE l.returned

from_file(path, f) ==
    IF format_of(path) = None THEN Err("Config")
    ELSE LET l == load(Config(path, format_of(path)[1], TRUE), f) IN
         IF l.returned.ok THEN Ok(l.self) ELSE l.returned

\* an error of load is logged and dropped
from_file_optional(path, f) ==
    IF format_of(path) = None THEN Err("Config")
    ELSE Ok(load(Config(path, format_of(path)[1], FALSE), f).self)

with_format(path, format, f) ==
    LET l == load(Config(path, format, TRUE), f) IN
    IF l.returned.ok THEN Ok(l.self) ELSE l.returned

Config_collect(self) == {Ok(IF self.data = None THEN EmptyObject ELSE self.data[1])}

-----------------------------------------------------------------------------
(* ConfigSource, src/src/source.rs, and its implementations                    *)

\* the source of with_defaults
DefaultsSource(value) == [impl |-> "DefaultsSource", value |-> value]

\* a source of the application: any source type, any result of collect
CustomSource(type, returned) == [impl |-> "Custom", type |-> type, returned |-> returned]

source_type(self) ==
    CASE self.impl = "DefaultsSource" -> "Default"
      [] self.impl = "Config" -> "ConfigFile"
      [] self.impl = "Environment" -> "Environment"
      [] self.impl = "Cli" -> "Cli"
      [] self.impl = "Custom" -> self.type

\* a Config that read its file again at each collect
collect_reloading(self, e, f) ==
    CASE self.impl = "DefaultsSource" -> {Ok(self.value)}
      [] self.impl = "Config" ->
            {IF load(self, f).returned.ok
             THEN Ok(load(self, f).self.data[1]) ELSE load(self, f).returned}
      [] self.impl = "Environment" -> Environment_collect(self, e)
      [] self.impl = "Cli" -> Cli_collect(self)
      [] self.impl = "Custom" -> {self.returned}

\* the results collect can return in environment e and file system f
collect(self, e, f) ==
    CASE self.impl = "DefaultsSource" -> {Ok(self.value)}
      [] self.impl = "Config" -> Config_collect(self)
      [] self.impl = "Environment" -> Environment_collect(self, e)
      [] self.impl = "Cli" -> Cli_collect(self)
      [] self.impl = "Custom" -> {self.returned}

-----------------------------------------------------------------------------
(* ConfigBuilder, src/src/builder.rs: the chaining calls                       *)

ConfigBuilder_new == [sources |-> <<>>, merge_strategy |-> "Deep", validate |-> None]

with_merge_strategy(self, s) == [self EXCEPT !.merge_strategy = s]

add_source(self, source) == [self EXCEPT !.sources = Append(@, source)]

with_env(self, prefix) == add_source(self, with_prefix(Environment_new, prefix))

with_file(self, path, f) ==
    IF from_file(path, f).ok
    THEN Ok(add_source(self, from_file(path, f).value)) ELSE from_file(path, f)

with_file_optional(self, path, f) ==
    IF from_file_optional(path, f).ok
    THEN Ok(add_source(self, from_file_optional(path, f).value))
    ELSE from_file_optional(path, f)

with_file_format(self, path, format, f) ==
    IF with_format(path, format, f).ok
    THEN Ok(add_source(self, with_format(path, format, f).value))
    ELSE with_format(path, format, f)

\* Cli::from_args: the arguments of the process
with_cli(self, args) == add_source(self, from_vec(args))

\* a with_defaults that pushed the defaults behind the sources
with_defaults_pushing(self, defaults) ==
    Ok([self EXCEPT !.sources = @ \o <<DefaultsSource(defaults)>>])

\* the defaults are inserted in front of the sources
with_defaults(self, defaults) ==
    Ok([self EXCEPT !.sources = <<DefaultsSource(defaults)>> \o @])

\* a validate_with that kept the validator there was
validate_with_keeping(self, validator) ==
    [self EXCEPT !.validate = IF @ = None THEN Some(validator) ELSE @]

validate_with(self, validator) == [self EXCEPT !.validate = Some(validator)]

-----------------------------------------------------------------------------
(* The closures given to validate_with in src/tests/builder_tests.rs ("PortMax")*)
(* and in the example of src/src/error.rs ("PortRange"); the struct AppConfig  *)
(* of src/tests/builder_tests.rs decoded by serde_json::from_value.            *)

kPort == <<"p", "o", "r", "t">>
kDatabaseUrl == <<"d", "a", "t", "a", "b", "a", "s", "e", "_", "u", "r", "l">>
kDebug == <<"d", "e", "b", "u", "g">>

\* Value::get with a string index, Value::as_u64
get(value, key) ==
    IF is_object(value) /\ Holds(value, key) THEN Some(value.v[key]) ELSE None
as_u64(value) == IF value.t = "num" /\ value.v >= 0 THEN Some(value.v) ELSE None

port_of(value) ==
    IF get(value, kPort) = None THEN None ELSE as_u64(get(value, kPort)[1])

Validators == {"PortMax", "PortRange"}
validator(name, value) ==
    CASE name = "PortMax" ->
            IF port_of(value) # None /\ port_of(value)[1] > 65535
            THEN Err("Validation") ELSE Ok(Unit)
      [] name = "PortRange" ->
            IF port_of(value) # None
               /\ (port_of(value)[1] = 0 \/ port_of(value)[1] > 65535)
            THEN Err("Validation") ELSE Ok(Unit)

IsString(x) == x.t = "str"
IsU16(x) == x.t = "num" /\ 0 <= x.v /\ x.v <= 65535
IsBool(x) == x.t = "bool"

\* an object gives the fields by name, other keys ignored; an array gives them
\* in the order of declaration; debug has a default
AppConfig(database_url, port, debug) ==
    [database_url |-> database_url, port |-> port, debug |-> debug]

from_value_AppConfig(value) ==
    IF is_object(value)
    THEN IF /\ Holds(value, kDatabaseUrl) /\ IsString(value.v[kDatabaseUrl])
            /\ Holds(value, kPort) /\ IsU16(value.v[kPort])
            /\ Holds(value, kDebug) => IsBool(value.v[kDebug])
         THEN Ok(AppConfig(value.v[kDatabaseUrl].v, value.v[kPort].v,
                           IF Holds(value, kDebug) THEN value.v[kDebug].v ELSE FALSE))
         ELSE Err("Serialization")
    ELSE IF is_array(value)
    THEN IF /\ Len(value.v) \in {2, 3}
            /\ IsString(value.v[1]) /\ IsU16(value.v[2])
            /\ Len(value.v) = 3 => IsBool(value.v[3])
         THEN Ok(AppConfig(value.v[1].v, value.v[2].v,
                           IF Len(value.v) = 3 THEN value.v[3].v ELSE FALSE))
         ELSE Err("Serialization")
    ELSE Err("Serialization")

\* serde_json::from_value::<T>, its error mapped by build
Types == {"AppConfig", "Value"}
from_value(T, value) ==
    IF T = "Value" THEN Ok(value) ELSE from_value_AppConfig(value)

-----------------------------------------------------------------------------
(* ConfigBuilder::build and ConfigBuilder::build_value. A run is the calls     *)
(* made, in their order, and the value returned.                               *)

Call(name, arg, returned) == [call |-> name, arg |-> arg, returned |-> returned]

\* the for loop over the sources: the results collected, up to the first error
RECURSIVE collect_loop(_, _, _, _)
collect_loop(srcs, e, f, results) ==
    IF Len(results) = Len(srcs) THEN {results}
    ELSE UNION {IF r.ok THEN collect_loop(srcs, e, f, Append(results, r))
                ELSE {Append(results, r)} :
                    r \in collect(srcs[Len(results) + 1], e, f)}

Failed(results) == results # <<>> /\ ~results[Len(results)].ok
Collects(results) == [i \in 1..Len(results) |-> Call("collect", i, results[i])]
PrioritizedValues(self, results) ==
    [i \in 1..Len(results) |->
        <<results[i].value, priority(source_type(self.sources[i]))>>]

\* a build that decodes the config value before it calls the validator
build_decoding_first(self, T, e, f) ==
    {IF Failed(results)
     THEN [log |-> Collects(results), returned |-> results[Len(results)]]
     ELSE LET source_values == PrioritizedValues(self, results)
              config == merge_sources(self.merge_strategy, source_values)
              merging == Append(Collects(results),
                                Call("merge_sources", source_values, config))
              decoding == Append(merging,
                                 Call("from_value", config, from_value(T, config)))
          IN  IF ~from_value(T, config).ok \/ self.validate = None
              THEN [log |-> decoding, returned |-> from_value(T, config)]
              ELSE [log |-> Append(decoding,
                                   Call("validator", config,
                                        validator(self.validate[1], config))),
                    returned |-> IF validator(self.validate[1], config).ok
                                 THEN from_value(T, config)
                                 ELSE validator(self.validate[1], config)] :
        results \in collect_loop(self.sources, e, f, <<>>)}

build(self, T, e, f) ==
    {IF Failed(results)
     THEN [log |-> Collects(results), returned |-> results[Len(results)]]
     ELSE LET source_values == PrioritizedValues(self, results)
              config == merge_sources(self.merge_strategy, source_values)
              merging == Append(Collects(results),
                                Call("merge_sources", source_values, config))
              validating ==
                  IF self.validate = None THEN merging
                  ELSE Append(merging,
                              Call("validator", config,
                                   validator(self.validate[1], config)))
          IN  IF self.validate # None /\ ~validator(self.validate[1], config).ok
              THEN [log |-> validating,
                    returned |-> validator(self.validate[1], config)]
              ELSE [log |-> Append(validating,
                                   Call("from_value", config, from_value(T, config))),
                    returned |-> from_value(T, config)] :
        results \in collect_loop(self.sources, e, f, <<>>)}

build_value(self, e, f) ==
    {IF Failed(results)
     THEN [log |-> Collects(results), returned |-> results[Len(results)]]
     ELSE LET source_values == PrioritizedValues(self, results)
              config == merge_sources(self.merge_strategy, source_values)
              merging == Append(Collects(results),
                                Call("merge_sources", source_values, config))
              validating ==
                  IF self.validate = None THEN merging
                  ELSE Append(merging,
                              Call("validator", config,
                                   validator(self.validate[1], config)))
          IN  IF self.validate # None /\ ~validator(self.validate[1], config).ok
              THEN [log |-> validating,
                    returned |-> validator(self.validate[1], config)]
              ELSE [log |-> validating, returned |-> Ok(config)] :
        results \in collect_loop(self.sources, e, f, <<>>)}

-----------------------------------------------------------------------------
(* The steps of a chain of builder calls, shared by Spec and SpecIO.           *)

Self == [sources |-> sources, merge_strategy |-> merge_strategy, validate |-> validate]

Building == bpc = "building"
Room == Len(sources) < MaxSources

NoMerging ==
    /\ mpc = "idle" /\ strategy = "Deep" /\ base = Null /\ incoming = Null
    /\ merged = Null /\ spc = "idle" /\ pairs = <<>> /\ result = Null

InitBuilder ==
    /\ bpc = "building"
    /\ sources = ConfigBuilder_new.sources
    /\ merge_strategy = ConfigBuilder_new.merge_strategy
    /\ validate = ConfigBuilder_new.validate
    /\ log = <<>> /\ outcome = <<>>
    /\ NoMerging /\ NoUnit

Becomes(b) ==
    /\ sources' = b.sources
    /\ merge_strategy' = b.merge_strategy
    /\ validate' = b.validate

\* a call that returns the builder
Chained(b) ==
    /\ Becomes(b)
    /\ UNCHANGED <<bpc, log, outcome, mergeVars, sourcesVars, worldVars, unitVars>>

\* a call that returns Result<Self>: on an error the chain ends with it and
\* the builder is dropped
Tried(op, r) ==
    IF r.ok THEN Chained(r.value)
    ELSE /\ bpc' = "failed"
         /\ outcome' = [op |-> op, returned |-> r]
         /\ Becomes(ConfigBuilder_new)
         /\ UNCHANGED <<log, mergeVars, sourcesVars, worldVars, unitVars>>

\* a terminal operation
Terminal(op, run) ==
    /\ bpc' = "done"
    /\ log' = run.log
    /\ outcome' = [op |-> op, returned |-> run.returned]
    /\ UNCHANGED <<sources, merge_strategy, validate, mergeVars, sourcesVars,
                   worldVars, unitVars>>

Build ==
    /\ Building
    /\ \E T \in Types : \E run \in build(Self, T, env, fs) : Terminal("build", run)

BuildValue ==
    /\ Building
    /\ \E run \in build_value(Self, env, fs) : Terminal("build_value", run)

-----------------------------------------------------------------------------
(* Spec: a builder given sources of the application with add_source, a merge   *)
(* strategy and a validator, in an empty environment.                          *)

CustomSources ==
    { CustomSource("ConfigFile",
          Ok(Obj((kDatabaseUrl :> Str(<<"d", "b">>)) @@ (kPort :> Num(80))))),
      CustomSource("ConfigFile", Ok(Obj(kPort :> Num(0)))),
      CustomSource("ConfigFile", Err("Io")),
      CustomSource("Environment", Ok(Obj(kPort :> Num(70000)))),
      CustomSource("Environment", Ok(Obj(kPort :> Str(<<"x">>)))),
      CustomSource("Environment", Err("Environment")),
      CustomSource("Cli", Ok(Obj(kDebug :> Bool(TRUE)))),
      CustomSource("Cli", Ok(Arr(<<Str(<<"d", "b">>), Num(80)>>))) }

Init ==
    /\ InitBuilder
    /\ env = NoEntries
    /\ fs = NoEntries

AddSource ==
    /\ Building /\ Room
    /\ \E source \in CustomSources : Chained(add_source(Self, source))

WithMergeStrategy ==
    /\ Building
    /\ \E s \in MergeStrategies : Chained(with_merge_strategy(Self, s))

ValidateWith ==
    /\ Building
    /\ \E v \in Validators : Chained(validate_with(Self, v))

Next == AddSource \/ WithMergeStrategy \/ ValidateWith \/ Build \/ BuildValue

Spec == Init /\ [][Next]_vars

-----------------------------------------------------------------------------
(* SpecIO: a builder given the sources of the library, while the environment   *)
(* and the file system change between the calls.                               *)

APP == <<"A", "P", "P">>
APP_A == <<"A", "P", "P", "_", "A">>
HOME == <<"H", "O", "M", "E">>
Prefixes == {APP}
SetVars == {APP_A} \X {<<"1">>, <<"2">>}

c_toml == <<"c", ".", "t", "o", "m", "l">>
cfg == <<"c", "f", "g">>
Paths == {c_toml, cfg}

\* a TOML text of two keys, a TOML text of a table, a text of no format, and
\* a JSON text (also a YAML text) whose root is an array
TomlFlat == File("Toml" :> Obj((kA :> Num(1)) @@ (kC :> Num(1))))
TomlTable == File("Toml" :> Obj(kA :> Obj(kX :> Num(1))))
Garbage == File(NoEntries)
JsonList == File(("Json" :> Arr(<<Num(1)>>)) @@ ("Yaml" :> Arr(<<Num(1)>>)))
Writes == {c_toml} \X {TomlFlat, TomlTable, Garbage}

Defaults == { Obj((kA :> Num(0)) @@ (kB :> Num(0)) @@ (kZ :> Num(0))),
              Obj((kA :> Obj(kY :> Num(0))) @@ (kZ :> Num(0))) }

\* std::env::args() of the process
args == << <<"p", "r", "o", "g">>, <<"-", "-", "b">>, <<"3">> >>

InitIO ==
    /\ InitBuilder
    /\ \E e \in {NoEntries} \cup {k :> x : <<k, x>> \in SetVars} :
          env = (HOME :> <<"/">>) @@ e
    /\ \E c \in {Missing} \cup {w[2] : w \in Writes} :
          fs = (c_toml :> c) @@ (cfg :> JsonList)

WithEnv ==
    /\ Building /\ Room
    /\ \E prefix \in Prefixes : Chained(with_env(Self, prefix))

WithFile ==
    /\ Building /\ Room
    /\ \E path \in Paths : Tried("with_file", with_file(Self, path, fs))

WithFileOptional ==
    /\ Building /\ Room
    /\ \E path \in Paths :
          Tried("with_file_optional", with_file_optional(Self, path, fs))

WithFileFormat ==
    /\ Building /\ Room
    /\ \E path \in Paths : \E format \in {"Json", "Toml"} :
          Tried("with_file_format", with_file_format(Self, path, format, fs))

WithCli ==
    /\ Building /\ Room
    /\ Chained(with_cli(Self, args))

WithDefaults ==
    /\ Building /\ Room
    /\ \E defaults \in Defaults : Tried("with_defaults", with_defaults(Self, defaults))

\* std::env::set_var and remove_var, fs::write and fs::remove_file, by the
\* application or by another process
SetVar ==
    /\ Building
    /\ \E w \in SetVars : env' = Insert(env, w[1], w[2])
    /\ UNCHANGED <<fs, builderVars, mergeVars, sourcesVars, unitVars>>

RemoveVar ==
    /\ Building
    /\ \E w \in SetVars : w[1] \in DOMAIN env
                          /\ env' = [n \in DOMAIN env \ {w[1]} |-> env[n]]
    /\ UNCHANGED <<fs, builderVars, mergeVars, sourcesVars, unitVars>>

WriteFile ==
    /\ Building
    /\ \E w \in Writes : fs' = [fs EXCEPT ![w[1]] = w[2]]
    /\ UNCHANGED <<env, builderVars, mergeVars, sourcesVars, unitVars>>

RemoveFile ==
    /\ Building
    /\ \E w \in Writes : fs[w[1]].exists /\ fs' = [fs EXCEPT ![w[1]] = Missing]
    /\ UNCHANGED <<env, builderVars, mergeVars, sourcesVars, unitVars>>

NextIO ==
    \/ WithEnv \/ WithFile \/ WithFileOptional \/ WithFileFormat \/ WithCli
    \/ WithDefaults \/ SetVar \/ RemoveVar \/ WriteFile \/ RemoveFile
    \/ Build \/ BuildValue

SpecIO == InitIO /\ [][NextIO]_vars

-----------------------------------------------------------------------------
(* What a terminal operation did, read from its calls.                         *)

Done == bpc = "done"
DoneBy(op) == bpc = "done" /\ outcome.op = op
CallsOf(name) == LET Is(c) == c.call = name IN SelectSeq(log, Is)

\* the terminal operation collected every source and merged
Merged == Done /\ CallsOf("merge_sources") # <<>>
MergedConfig == CallsOf("merge_sources")[1].returned
Inputs == CallsOf("merge_sources")[1].arg

-----------------------------------------------------------------------------
(* C9, in Spec                                                                 *)

FailingSources == {i \in 1..Len(sources) : ~sources[i].returned.ok}
FirstFailing == CHOOSE i \in FailingSources : \A j \in FailingSources : i <= j
AllCollected ==
    [i \in 1..Len(sources) |->
        <<sources[i].returned.value, priority(source_type(sources[i]))>>]
Verdict(x) == validator(validate[1], x)
\* the call c is a call of name with this argument and this return
IsCall(c, name, arg, returned) == c.call = name /\ c.arg = arg /\ c.returned = returned

\* C9: build calls collect on the sources in the order they were added and
\* stops at the first that fails, returning its error with no later collect,
\* no merge, no validator call and no decoding; after a collection without
\* failure it merges all the collected values once, then calls the validator,
\* if there is one, once and on the merged value; if the validator fails build
\* returns the validator's error without decoding, also when the merged value
\* could not be decoded; otherwise it decodes the merged value and returns
\* the decoded value or the decode error.
C9_StagesInOrderFailFast ==
    DoneBy("build") =>
        LET n == IF FailingSources = {} THEN Len(sources) ELSE FirstFailing
            v == IF validate = None THEN 0 ELSE 1
        IN  /\ Len(CallsOf("collect")) = n /\ Len(log) >= n
            /\ \A i \in 1..n : IsCall(log[i], "collect", i, sources[i].returned)
            /\ FailingSources # {} =>
                  /\ Len(log) = n
                  /\ outcome.returned = sources[n].returned
            /\ FailingSources = {} =>
                  /\ Len(log) > n
                  /\ IsCall(log[n + 1], "merge_sources", AllCollected,
                            merge_sources(merge_strategy, AllCollected))
                  /\ Len(CallsOf("merge_sources")) = 1
                  /\ Len(CallsOf("validator")) = v
                  /\ v = 1 => /\ Len(log) >= n + 2
                              /\ IsCall(log[n + 2], "validator", MergedConfig,
                                        Verdict(MergedConfig))
                  /\ IF v = 1 /\ ~Verdict(MergedConfig).ok
                     THEN /\ Len(log) = n + 2
                          /\ outcome.returned = Verdict(MergedConfig)
                          /\ outcome.returned.error = "Validation"
                     ELSE /\ Len(log) = n + v + 2
                          /\ log[n + v + 2].call = "from_value"
                          /\ log[n + v + 2].arg = MergedConfig
                          /\ outcome.returned = log[n + v + 2].returned

\* build returned the error of a validator on a merged value that cannot be
\* decoded either, after collecting three sources
C9_Witness ==
    /\ DoneBy("build") /\ Merged
    /\ Len(sources) = 3
    /\ validate # None /\ ~Verdict(MergedConfig).ok
    /\ ~from_value("AppConfig", MergedConfig).ok
    /\ outcome.returned = Err("Validation")
    /\ CallsOf("from_value") = <<>>

-----------------------------------------------------------------------------
(* C8, in SpecIO                                                               *)

Real == LET IsReal(e) == e[2] # priority("Default") IN SelectSeq(Inputs, IsReal)
Supplied == UNION {Keys(Real[i][1]) : i \in 1..Len(Real)}
\* what the defaults alone yield, and what the other sources alone yield
Defaulted == merge_sources("Deep", WithPriority(Inputs, priority("Default")))
Alone == merge_sources("Deep", Real)

\* the value at key k of the highest ranking source, other than the defaults,
\* that holds k
Supplying(k) == {i \in 1..Len(Real) : Holds(sort_by_key(Real)[i][1], k)}
Winner(k) ==
    sort_by_key(Real)[CHOOSE i \in Supplying(k) : \A j \in Supplying(k) : j <= i][1].v[k]

\* C8 as claimed: under Deep, with file, environment and CLI sources that
\* yield objects, every key supplied by one of them holds in the build result
\* the value of that source, and a key only the defaults hold has its default
\* value.
C8_DefaultsNeverShowThrough ==
    (/\ Merged /\ merge_strategy = "Deep"
     /\ \A i \in 1..Len(Real) : is_object(Real[i][1])) =>
        /\ \A k \in Supplied : Holds(MergedConfig, k) /\ MergedConfig.v[k] = Winner(k)
        /\ \A k \in Keys(Defaulted) \ Supplied :
              Holds(MergedConfig, k) /\ MergedConfig.v[k] = Defaulted.v[k]

\* C8: under Deep, when the file, environment and CLI sources all yield
\* objects, in whichever order with_defaults and the other calls were made:
\* a key k these sources supply is in the result; it holds exactly the value
\* W they yield without the defaults if W is not an object or the defaults
\* hold no object at k; if W and the default at k are both objects the result
\* holds an object at k that has W's value at each key where W holds a
\* non-object (the default's other nested keys may remain); a key only the
\* defaults hold has its default value.
C8_DefaultsYieldExceptInNestedObjects ==
    (/\ Merged /\ merge_strategy = "Deep"
     /\ \A i \in 1..Len(Real) : is_object(Real[i][1])) =>
        /\ \A k \in Supplied :
              /\ Holds(MergedConfig, k)
              /\ (~is_object(Alone.v[k]) \/ ~is_object(Defaulted)
                    \/ ~Holds(Defaulted, k) \/ ~is_object(Defaulted.v[k]))
                  => MergedConfig.v[k] = Alone.v[k]
              /\ is_object(Alone.v[k]) =>
                    /\ is_object(MergedConfig.v[k])
                    /\ \A j \in Keys(Alone.v[k]) :
                          ~is_object(Alone.v[k].v[j]) =>
                              /\ Holds(MergedConfig.v[k], j)
                              /\ MergedConfig.v[k].v[j] = Alone.v[k].v[j]
        /\ \A k \in Keys(Defaulted) \ Supplied :
              Holds(MergedConfig, k) /\ MergedConfig.v[k] = Defaulted.v[k]

\* defaults, a file and the environment all hold key a, the result has the
\* environment's value there, and key z has its default
C8_Witness ==
    /\ Merged /\ merge_strategy = "Deep"
    /\ \A i \in 1..Len(Real) : is_object(Real[i][1])
    /\ {sources[i].impl : i \in 1..Len(sources)} = {"DefaultsSource", "Config", "Environment"}
    /\ \A i \in 1..Len(Inputs) : Holds(Inputs[i][1], kA)
    /\ Holds(Defaulted, kA) /\ MergedConfig.v[kA] # Defaulted.v[kA]
    /\ MergedConfig.v[kA] = Alone.v[kA] /\ MergedConfig.v[kA].t = "num"
    /\ kZ \notin Supplied /\ MergedConfig.v[kZ] = Defaulted.v[kZ]

-----------------------------------------------------------------------------
(* C10, in SpecIO                                                              *)

\* C10 as claimed: what a terminal operation collects from a source is read
\* from the environment and the file system as they are at that operation:
\* from a file that can be read and parsed then, the value parsed then.
C10_CollectReadsFilesAtBuild ==
    Done => \A i \in 1..Len(log) :
                log[i].call = "collect" =>
                    \A r \in collect_reloading(sources[i], env, fs) :
                        r.ok => log[i].returned = r

\* the file of a Config as the call that made the source found it
Snapshot(c, f) ==
    IF ~read_to_string(f, c.path).ok THEN Some(EmptyObject)
    ELSE IF parse(c.format, read_to_string(f, c.path).value).ok
         THEN Some(parse(c.format, read_to_string(f, c.path).value).value)
    ELSE None

\* C10: with_env only records a source and the environment is read when the
\* terminal operation collects it, so a variable changed in between is seen;
\* with_file, with_file_optional and with_file_format read and parse the file
\* during the call (a required file that is missing or does not parse ends
\* the chain with the error there), the source keeps what was parsed, a later
\* change of the file or of the environment changes no source, and the
\* terminal operation collects from a file source what the call had parsed.
C10_FilesReadAtCallEnvironmentAtBuild ==
    [][ /\ \A c \in {sources'[j] : j \in {Len(sources')} \cap {Len(sources) + 1}} :
              (sources' = Append(sources, c) /\ c.impl = "Config") =>
                  /\ c.data = Snapshot(c, fs)
                  /\ c.required => read_to_string(fs, c.path).ok /\ c.data # None
        /\ (bpc' = "failed" /\ outcome'.op \in {"with_file", "with_file_format"}
              /\ outcome'.returned.error # "Config") =>
              \E path \in Paths :
                  \/ ~read_to_string(fs, path).ok /\ outcome'.returned.error = "Io"
                  \/ /\ read_to_string(fs, path).ok
                     /\ outcome'.returned.error = "Serialization"
        /\ (env' # env \/ fs' # fs) => sources' = sources
        /\ bpc' = "done" =>
              \A i \in 1..Len(log') :
                  log'[i].call = "collect" =>
                      /\ sources[i].impl = "Config" =>
                            log'[i].returned =
                                Ok(IF sources[i].data = None THEN EmptyObject
                                   ELSE sources[i].data[1])
                      /\ sources[i].impl = "Environment" =>
                            log'[i].returned \in collect_with_flat_keys(sources[i], env)
      ]_vars

\* a terminal operation collected from a file source the value parsed at the
\* builder call, which the file no longer holds, and from the environment
\* source a variable of the environment
C10_Witness ==
    /\ Merged
    /\ \E i \in 1..Len(sources) :
          /\ sources[i].impl = "Config" /\ sources[i].data # None
          /\ log[i].returned = Ok(sources[i].data[1])
          /\ sources[i].data # Snapshot(sources[i], fs)
          /\ Keys(sources[i].data[1]) # {}
    /\ \E i \in 1..Len(sources) :
          /\ sources[i].impl = "Environment" /\ APP_A \in DOMAIN env
          /\ log[i].returned = Ok(Obj(kA :> parse_env_value(env[APP_A])))

-----------------------------------------------------------------------------
(* SpecFiles: a builder given files by path, required or optional, in a file   *)
(* system that stays as it is; log holds the calls made on the builder.        *)

nonexistent == <<"/", "n", "o", "n", "e", "x", "i", "s", "t", "e", "n", "t">>
c_ini == <<"c", ".", "i", "n", "i">>
FilePaths == {c_toml, c_ini, nonexistent}

X == <<"X">>
X_NAME == <<"X", "_", "N", "A", "M", "E">>
kName == <<"n", "a", "m", "e">>
foo == <<"f", "o", "o">>

InitFiles ==
    /\ InitBuilder
    /\ env \in {HOME :> <<"/">>, (HOME :> <<"/">>) @@ (X_NAME :> foo)}
    /\ \E c \in {Missing, TomlFlat, Garbage} : \E i \in {Missing, Garbage} :
          fs = (c_toml :> c) @@ (c_ini :> i) @@ (nonexistent :> Missing)

\* a call on the builder with a path, which returns Result<Self>
Called(op, path, r) ==
    /\ log' = Append(log, Call(op, [self |-> Self, path |-> path], r))
    /\ IF r.ok
       THEN Becomes(r.value) /\ UNCHANGED <<bpc, outcome>>
       ELSE /\ bpc' = "failed"
            /\ outcome' = [op |-> op, returned |-> r]
            /\ Becomes(ConfigBuilder_new)
    /\ UNCHANGED <<mergeVars, sourcesVars, worldVars, unitVars>>

FilesWithFile ==
    /\ Building /\ Room
    /\ \E path \in FilePaths : Called("with_file", path, with_file(Self, path, fs))

FilesWithFileOptional ==
    /\ Building /\ Room
    /\ \E path \in FilePaths :
          Called("with_file_optional", path, with_file_optional(Self, path, fs))

FilesWithEnv ==
    /\ Building /\ Room
    /\ Chained(with_env(Self, X))

NextFiles == FilesWithFile \/ FilesWithFileOptional \/ FilesWithEnv \/ Build \/ BuildValue

SpecFiles == InitFiles /\ [][NextFiles]_vars

\* the calls of op made on the builder
BuilderCalls(op) == {i \in 1..Len(log) : log[i].call = op}
\* the source a successful call added
Added(c) == c.returned.value.sources[Len(c.returned.value.sources)]
Exists(path) == fs[path].exists

-----------------------------------------------------------------------------
(* C11, C12, C13, in SpecFiles                                                 *)

OptionalMissing(src) == src.impl = "Config" /\ ~src.required /\ ~Exists(src.path)
Others == LET Other(src) == ~OptionalMissing(src) IN SelectSeq(sources, Other)
Parses(path) ==
    /\ format_of(path) # None
    /\ parse(format_of(path)[1], fs[path].content).ok

\* C11: with_file_optional on a path at which no file exists, whatever its
\* name or extension, returns success and adds a source that contributes the
\* empty object, and build_value after it returns what it returns for the
\* other sources alone.
C11_MissingOptionalFileIsNoError ==
    /\ \A i \in BuilderCalls("with_file_optional") :
          ~Exists(log[i].arg.path) =>
              /\ log[i].returned.ok
              /\ collect(Added(log[i]), env, fs) = {Ok(EmptyObject)}
    /\ DoneBy("build_value") =>
          outcome.returned \in
              {run.returned :
                  run \in build_value([Self EXCEPT !.sources = Others], env, fs)}

\* C12: with_file_optional on a file that exists and does not parse in its
\* format returns an error, and no builder that is built holds the source of
\* such a file.
C12_OptionalFileParseErrorPropagates ==
    /\ \A i \in BuilderCalls("with_file_optional") :
          (Exists(log[i].arg.path) /\ ~Parses(log[i].arg.path)) =>
              ~log[i].returned.ok
    /\ Done => \A j \in 1..Len(sources) :
                  (sources[j].impl = "Config" /\ ~sources[j].required
                   /\ Exists(sources[j].path)) => Parses(sources[j].path)

-----------------------------------------------------------------------------
(* SpecCoerce: one raw string, the value of an environment variable or a       *)
(* command line token, coerced by the Environment source and by the Cli source *)

MaxRawLen == 2
RawChars == {"1", "0", "-", ".", "e", "[", "]", "{", "}", "n"}
Examples ==
    { <<"4", "2">>, <<"-", "7">>, <<"+", "5">>, <<"3", ".", "1", "4">>,
      <<"1", ".">>, <<"1", "e", "3">>, <<"t", "r", "u", "e">>,
      <<"f", "a", "l", "s", "e">>, <<"T", "r", "u", "e">>,
      <<"T", "R", "U", "E">>, <<"[", "1", ",", "2", ",", "3", "]">>,
      <<"[", "]">>, <<"[", "1", ",">>, <<"[", "1", " ", "2", "]">>,
      <<"[", "a", "]">>, <<"{", "\"", "a", "\"", ":", "1", "}">>,
      <<"{", "}">>, <<"{", "a", "}">>,
      <<"{", "\"", "a", "\"", ":", "[", "t", "r", "u", "e", "]", "}">>,
      <<"N", "a", "N">>, <<"n", "a", "n">>, <<"i", "n", "f">>,
      <<"-", "i", "n", "f">>,
      <<"+", "I", "n", "f", "i", "n", "i", "t", "y">>,
      <<"1", "e", "9", "9", "9">>, <<"-", "1", "e", "9", "9", "9">>,
      <<"h", "e", "l", "l", "o">>, <<" ", "4", "2">>, <<"0", "x", "1", "0">> }
RawValues == Examples \cup UNION {[1..n -> RawChars] : n \in 0..MaxRawLen}

InitCoerce ==
    /\ NoBuilder /\ NoMerging
    /\ raw_value \in RawValues
    /\ coerced = [env |-> None, cli |-> None]
    /\ one_source = <<>> /\ collected = <<>>
    /\ NoRun

ParseEnvValue ==
    /\ coerced.env = None
    /\ coerced' = [coerced EXCEPT !.env = Some(parse_env_value(raw_value))]
    /\ UNCHANGED <<raw_value, one_source, collected, runVars, mergeVars, sourcesVars,
                   builderVars, worldVars>>

ParseValue ==
    /\ coerced.cli = None
    /\ coerced' = [coerced EXCEPT !.cli = Some(parse_value(raw_value))]
    /\ UNCHANGED <<raw_value, one_source, collected, runVars, mergeVars, sourcesVars,
                   builderVars, worldVars>>

NextCoerce == ParseEnvValue \/ ParseValue

SpecCoerce == InitCoerce /\ [][NextCoerce]_vars

-----------------------------------------------------------------------------
(* C14, C15, C16, in SpecCoerce                                                *)

Bracketed(s) == starts_with(s, <<"[">>) /\ ends_with(s, <<"]">>)
Braced(s) == starts_with(s, <<"{">>) /\ ends_with(s, <<"}">>)

\* the first that succeeds of: boolean literal, signed 64-bit integer, finite
\* double, bracketed JSON array, braced JSON object; else the raw string
FirstSuccess(s, bool, int, float, array, object) ==
    IF bool.ok THEN Bool(bool.value)
    ELSE IF int.ok THEN Num(int.value)
    ELSE IF float.ok /\ float.value.finite THEN Float(float.value)
    ELSE IF Bracketed(s) /\ array.ok THEN array.value
    ELSE IF Braced(s) /\ object.ok THEN object.value
    ELSE Str(s)
InOrder(s) ==
    FirstSuccess(s, parse_bool(s), parse_i64(s), parse_f64(s), from_str_vec(s),
                 from_str(s))

ParsesNonFinite(float) == float.ok /\ ~float.value.finite

\* C14: the coercion of an environment variable's value returns the first
\* that succeeds of boolean literal ("true" or "false" exactly), signed
\* 64-bit integer, finite double, bracketed JSON array and braced JSON object,
\* and the raw string unchanged when none does.
C14_EnvCoercionFirstSuccess ==
    coerced.env # None => coerced.env[1] = InOrder(raw_value)

\* C15: a raw string that parses as a double that is not finite is returned
\* as the string it is by the coercion of the Environment source and by the
\* coercion of the Cli source.
C15_NonFiniteStaysString ==
    ParsesNonFinite(parse_f64(raw_value)) =>
        /\ coerced.env # None => coerced.env[1] = Str(raw_value)
        /\ coerced.cli # None => coerced.cli[1] = Str(raw_value)

\* C16: for every raw string the coercion of the Environment source and the
\* coercion of the Cli source return the same value.
C16_EnvAndCliCoerceAlike ==
    (coerced.env # None /\ coerced.cli # None) => coerced.env[1] = coerced.cli[1]

-----------------------------------------------------------------------------
(* SpecEnv: one Environment source, configured call by call and collected in   *)
(* a process environment that some of the variables below are set in.          *)

APP_a == <<"a", "p", "p", "_", "a">>
APPA == <<"A", "P", "P", "A">>
APP__A == <<"A", "P", "P", "_", "_", "A">>
APP_dash_A == <<"A", "P", "P", "-", "A">>
K_A == <<"K", "_", "A">>

\* the value of each variable, and the value of each override
Variables ==
    (APP_A :> <<"1">>) @@ (APP_a :> <<"2">>) @@ (APPA :> <<"3">>) @@ (APP :> <<"4">>)
    @@ (APP__A :> <<"5">>) @@ (APP_dash_A :> <<"6">>) @@ (K_A :> <<"t", "r", "u", "e">>)
Overrides == (APP_A :> <<"7">>) @@ (APP_a :> <<"8">>) @@ (K_A :> <<"f", "a", "l", "s", "e">>)
Separators == {<<"-">>}
Fields == {kA, kB}
EnvKeys == {K_A, APP_A}

InitEnv ==
    /\ bpc = "idle" /\ sources = <<>> /\ merge_strategy = "Deep"
    /\ validate = <<>> /\ log = <<>> /\ outcome = <<>>
    /\ NoMerging
    /\ raw_value = <<>> /\ coerced = <<>>
    /\ argv = <<>> /\ again = <<>>
    /\ queried = <<>>
    /\ one_source = Environment_new
    /\ collected = None
    /\ \E set \in SUBSET DOMAIN Variables : env = [n \in set |-> Variables[n]]
    /\ fs = NoEntries

\* a call that returns the source
Configured(self) ==
    /\ collected = None
    /\ one_source' = self
    /\ UNCHANGED <<raw_value, coerced, collected, runVars, mergeVars, sourcesVars,
                   builderVars, worldVars>>

EnvWithPrefix == Configured(with_prefix(one_source, APP))

EnvSeparator == \E sep \in Separators : Configured(separator(one_source, sep))

EnvCaseSensitive == Configured(case_sensitive(one_source, TRUE))

EnvOverrideWith ==
    \E key \in DOMAIN Overrides : Configured(override_with(one_source, key, Overrides[key]))

EnvWithFieldMapping ==
    \E field_name \in Fields : \E env_key \in EnvKeys :
        Configured(with_field_mapping(one_source, field_name, env_key))

EnvCollect ==
    /\ collected = None
    /\ \E r \in Environment_collect(one_source, env) : collected' = Some(r)
    /\ UNCHANGED <<raw_value, coerced, one_source, runVars, mergeVars, sourcesVars,
                   builderVars, worldVars>>

NextEnv ==
    \/ EnvWithPrefix \/ EnvSeparator \/ EnvCaseSensitive \/ EnvOverrideWith
    \/ EnvWithFieldMapping \/ EnvCollect

SpecEnv == InitEnv /\ [][NextEnv]_vars

-----------------------------------------------------------------------------
(* C17, C18, in SpecEnv                                                        *)

HasCollected == collected # None
Collected == collected[1].value
FlatMode == DOMAIN one_source.field_mappings = {}
MappedMode == DOMAIN one_source.field_mappings # {}
Prefixed == one_source.prefix # None
Coercion(table, n) == parse_env_value(table[n])

\* the variables named by the pattern: the prefix, the separator and a key,
\* compared without regard to case, and the key of each
PatternHead == one_source.prefix[1] \o one_source.separator
Patterned ==
    {n \in DOMAIN env : /\ starts_with(to_uppercase(n), to_uppercase(PatternHead))
                        /\ Len(n) > Len(PatternHead)}
PatternKey(n) == to_lowercase(DropFirst(n, Len(PatternHead)))

\* C17: in flat mode with a prefix, the default case-insensitive setting and
\* no override, the result holds key k exactly when a variable named prefix,
\* separator, K exists with k the lower-cased K, and the value at k is the
\* coerced value of such a variable; a variable that starts with the prefix
\* without the separator after it, or is the prefix alone, gives no key, and
\* the keys are flat.
C17_FlatKeysFollowThePattern ==
    (HasCollected /\ FlatMode /\ Prefixed /\ ~one_source.case_sensitive
     /\ DOMAIN one_source.overrides = {}) =>
        /\ Keys(Collected) = {PatternKey(n) : n \in Patterned}
        /\ \A k \in Keys(Collected) :
              Collected.v[k] \in {Coercion(env, n) : n \in {m \in Patterned : PatternKey(m) = k}}

\* C18: a field mapped to the explicit key K takes its value from K alone,
\* the override of K first and the variable K after it: when K is set the
\* field holds the coerced value of K, and when K is not set the field is
\* absent, whatever variable the prefix pattern names for the field.
C18_MappedFieldOnlyFromItsKey ==
    HasCollected =>
        \A f \in DOMAIN one_source.field_mappings :
            LET K == one_source.field_mappings[f] IN
            IF K \in DOMAIN one_source.overrides
            THEN Holds(Collected, f) /\ Collected.v[f] = Coercion(one_source.overrides, K)
            ELSE IF K \in DOMAIN env
            THEN Holds(Collected, f) /\ Collected.v[f] = Coercion(env, K)
            ELSE ~Holds(Collected, f)

-----------------------------------------------------------------------------
(* C19, C20, in SpecEnv                                                        *)

ExplicitKeys == {one_source.field_mappings[f] : f \in DOMAIN one_source.field_mappings}
\* the mapped fields whose key is set, as an override or as a variable
Resolved ==
    {f \in DOMAIN one_source.field_mappings :
        one_source.field_mappings[f] \in DOMAIN one_source.overrides \cup DOMAIN env}
MappedValue(f) ==
    IF one_source.field_mappings[f] \in DOMAIN one_source.overrides
    THEN Coercion(one_source.overrides, one_source.field_mappings[f])
    ELSE Coercion(env, one_source.field_mappings[f])
\* the variables that match the prefix and are the key of no mapping
Discovered ==
    {n \in DOMAIN env : passes_prefix(one_source, n) /\ n \notin ExplicitKeys}
Name(n) == flat_key(one_source, n)

\* C19: in mapped mode with a prefix the result holds the mapped fields and,
\* for every variable that matches the prefix and is the key of no mapping,
\* the coerced value of the variable under its de-prefixed lower-cased name;
\* a variable that is the key of a mapping is not inserted under its
\* de-prefixed name; without a prefix the result holds the mapped fields only.
C19_EveryPrefixedVariableCollected ==
    (HasCollected /\ MappedMode) =>
        IF Prefixed
        THEN /\ Resolved \subseteq Keys(Collected)
             /\ \A n \in Discovered :
                   Holds(Collected, Name(n)) /\ Collected.v[Name(n)] = Coercion(env, n)
             /\ \A n \in ExplicitKeys \cap DOMAIN env :
                   (passes_prefix(one_source, n) /\ Holds(Collected, Name(n))) =>
                       \/ Name(n) \in Resolved
                       \/ \E m \in Discovered : Name(m) = Name(n)
        ELSE Keys(Collected) = Resolved

\* C19 as the code has it: the keys of the result are the mapped fields whose
\* key is set and, with a prefix, the de-prefixed lower-cased names of the
\* variables that match the prefix and are the key of no mapping; a mapped
\* field whose key is set holds the value of its key, and any other key holds
\* the coerced value of one of the variables of that name.
C19_PrefixedVariablesFillFreeNames ==
    (HasCollected /\ MappedMode) =>
        /\ Keys(Collected) =
              Resolved \cup (IF Prefixed THEN {Name(n) : n \in Discovered} ELSE {})
        /\ \A k \in Keys(Collected) :
              IF k \in Resolved THEN Collected.v[k] = MappedValue(k)
              ELSE Collected.v[k] \in
                      {Coercion(env, n) : n \in {m \in Discovered : Name(m) = k}}

\* a mapped field holds the value of its key while a variable of the prefix
\* pattern has the name of the field, and another variable is collected under
\* its own name
C19_Witness ==
    /\ HasCollected /\ Prefixed
    /\ DOMAIN one_source.field_mappings = {kA} /\ one_source.field_mappings[kA] = K_A
    /\ one_source.separator = <<"_">> /\ ~one_source.case_sensitive
    /\ DOMAIN env = {K_A, APP_A, APP_dash_A}
    /\ DOMAIN one_source.overrides = {}
    /\ Collected = Obj((kA :> Bool(TRUE)) @@ (<<"-", "a">> :> Num(6)))

\* the overrides whose name has the key of K
SameKey(K) ==
    {o \in DOMAIN one_source.overrides :
        passes_prefix(one_source, o) /\ Name(o) = Name(K)}

OverridesWin ==
    \A K \in DOMAIN one_source.overrides \cap DOMAIN env :
        IF FlatMode
        THEN passes_prefix(one_source, K) =>
                /\ Holds(Collected, Name(K))
                /\ Collected.v[Name(K)] \in
                      {Coercion(one_source.overrides, o) : o \in SameKey(K)}
        ELSE \A f \in DOMAIN one_source.field_mappings :
                one_source.field_mappings[f] = K =>
                    /\ Holds(Collected, f)
                    /\ Collected.v[f] = Coercion(one_source.overrides, K)

-----------------------------------------------------------------------------
(* SpecCli: one Cli source made from the arguments of the process, given       *)
(* field mappings and collected.                                               *)

MaxArgs == 3
program == <<"p", "r", "o", "g", "r", "a", "m">>
long_port == <<"-", "-", "p", "o", "r", "t">>
port_equals == <<"-", "-", "p", "o", "r", "t", "=", "8", "0", "8", "0">>
long_debug == <<"-", "-", "d", "e", "b", "u", "g">>
short_p == <<"-", "p">>
n8080 == <<"8", "0", "8", "0">>
false_word == <<"f", "a", "l", "s", "e">>
Tokens == {long_port, port_equals, long_debug, short_p, n8080, false_word}
CliKeys == {kPort, kDebug}

InitCli ==
    /\ bpc = "idle" /\ sources = <<>> /\ merge_strategy = "Deep"
    /\ validate = <<>> /\ log = <<>> /\ outcome = <<>>
    /\ env = <<>> /\ fs = <<>>
    /\ NoMerging
    /\ raw_value = <<>> /\ coerced = <<>>
    /\ queried = <<>> /\ again = <<>>
    /\ argv \in {<<program>> \o rest : rest \in SeqsUpTo(MaxArgs, Tokens)}
    /\ one_source = None
    /\ collected = None

CliFromVec ==
    /\ one_source = None
    /\ one_source' = Some(from_vec(argv))
    /\ UNCHANGED <<raw_value, coerced, collected, runVars, mergeVars, sourcesVars,
                   builderVars, worldVars>>

CliWithFieldMapping ==
    /\ one_source # None /\ collected = None
    /\ \E cli_key \in CliKeys :
          one_source' = Some(Cli_with_field_mapping(one_source[1], kA, cli_key))
    /\ UNCHANGED <<raw_value, coerced, collected, runVars, mergeVars, sourcesVars,
                   builderVars, worldVars>>

CliCollect ==
    /\ one_source # None /\ collected = None
    /\ \E r \in Cli_collect(one_source[1]) : collected' = Some(r)
    /\ UNCHANGED <<raw_value, coerced, one_source, runVars, mergeVars, sourcesVars,
                   builderVars, worldVars>>

NextCli == CliFromVec \/ CliWithFieldMapping \/ CliCollect

SpecCli == InitCli /\ [][NextCli]_vars

-----------------------------------------------------------------------------
(* C21, C22, C23, in SpecCli                                                   *)

IsLong(token) == starts_with(token, <<"-", "-">>)
IsShort(token) == ~IsLong(token) /\ starts_with(token, <<"-">>) /\ Len(token) = 2
IsFlag(token) == IsLong(token) \/ IsShort(token)
FlagKey(token) == IF IsLong(token) THEN DropFirst(token, 2) ELSE DropFirst(token, 1)
EqualsAt(token) ==
    IF \E i \in 1..Len(token) : token[i] = "="
    THEN CHOOSE i \in 1..Len(token) :
            token[i] = "=" /\ \A j \in 1..(i - 1) : token[j] # "="
    ELSE 0
\* the arguments with every token --key=value written as the two tokens
\* --key value
RECURSIVE SplitEquals(_)
SplitEquals(a) ==
    IF a = <<>> THEN <<>>
    ELSE IF IsLong(Head(a)) /\ EqualsAt(Head(a)) > 0
    THEN <<SubSeq(Head(a), 1, EqualsAt(Head(a)) - 1),
           DropFirst(Head(a), EqualsAt(Head(a)))>> \o SplitEquals(Tail(a))
    ELSE <<Head(a)>> \o SplitEquals(Tail(a))

\* C21: the tokenizer gives one entry, the key with the coerced value, for
\* each of --key value, --key=value and -k value: the arguments with a token
\* --key=value give the entries the arguments with the two tokens --key value
\* in its place give, and a lone flag followed by a value gives the key of the
\* flag with the coerced value.
C21_CliTokenForms ==
    HasCollected =>
        /\ Collected = Obj(from_vec(SplitEquals(argv)).parsed_values)
        /\ \A flag \in {long_port, long_debug, short_p} : \A value \in {n8080, false_word} :
              argv = <<program, flag, value>> =>
                  Collected = Obj(FlagKey(flag) :> parse_value(value))

\* C22: a long flag that is the last argument, or whose next argument is a
\* long or a short flag, is true and the next argument is parsed as its own
\* flag; any other long flag takes the next argument as its coerced value.
C22_BareLongFlagIsTrue ==
    (HasCollected /\ Len(argv) >= 2 /\ IsLong(argv[2])) =>
        IF Len(argv) = 2 \/ IsFlag(argv[3])
        THEN Collected = Obj(from_vec_loop(argv, 3, FlagKey(argv[2]) :> Bool(TRUE)))
        ELSE Collected = Obj(from_vec_loop(argv, 4, FlagKey(argv[2]) :> parse_value(argv[3])))

\* C23: the value given on the command line under the key a field is mapped
\* to is held by the result of collect under the name of the field.
C23_CliMappingExposesField ==
    HasCollected =>
        \A f \in DOMAIN one_source[1].field_mappings :
            one_source[1].field_mappings[f] \in DOMAIN one_source[1].parsed_values =>
                /\ Holds(Collected, f)
                /\ Collected.v[f] =
                      one_source[1].parsed_values[one_source[1].field_mappings[f]]

-----------------------------------------------------------------------------
(* The derive macro, src/gonfig_derive/src/lib.rs: the Environment source that *)
(* from_gonfig gives the builder for a struct with the attribute env_prefix    *)
(* (empty when absent) and fields <<name, env_name>>; and                      *)
(* Environment::collect_for_struct.                                            *)

\* the variable a field is mapped to
derived_env_key(env_prefix, field_str, env_name) ==
    IF env_name # None THEN env_name[1]
    ELSE IF env_prefix # <<>> THEN env_prefix \o <<"_">> \o to_uppercase(field_str)
    ELSE to_uppercase(field_str)

RECURSIVE field_mappings_loop(_, _, _)
field_mappings_loop(environment, env_prefix, fields) ==
    IF fields = <<>> THEN environment
    ELSE field_mappings_loop(
             with_field_mapping(environment, Head(fields).field,
                 derived_env_key(env_prefix, Head(fields).field, Head(fields).env_name)),
             env_prefix, Tail(fields))

derived_environment(env_prefix, fields) ==
    field_mappings_loop(IF env_prefix # <<>> THEN with_prefix(Environment_new, env_prefix)
                        ELSE Environment_new,
                        env_prefix, fields)

RECURSIVE trim_end_matches(_, _)
trim_end_matches(s, c) ==
    IF s # <<>> /\ s[Len(s)] = c THEN trim_end_matches(SubSeq(s, 1, Len(s) - 1), c) ELSE s

struct_env_key(self, struct_name, field_name, field_override) ==
    IF field_override # None THEN field_override[1]
    ELSE IF self.prefix # None
    THEN trim_end_matches(to_uppercase(self.prefix[1]) \o <<"_">> \o to_uppercase(struct_name)
                          \o <<"_">> \o to_uppercase(field_name) \o <<"_">>, "_")
    ELSE to_uppercase(struct_name) \o <<"_">> \o to_uppercase(field_name)

collect_for_struct(self, struct_name, fields, e) ==
    LET value == [n \in 1..Len(fields) |->
                     Coerced(looked_up(struct_env_key(self, struct_name, fields[n].field,
                                                      fields[n].env_name),
                                       self.overrides, e))]
        found == {n \in 1..Len(fields) : value[n] # None}
    IN  [k \in {fields[n].field : n \in found} |->
            value[CHOOSE n \in found : fields[n].field = k][1]]

-----------------------------------------------------------------------------
(* SpecDerive: the Environment source of the derive macro for the struct       *)
(* Config { a, #[gonfig(env_name = "DB")] b }, with and without                *)
(* env_prefix = "APP", collected in an environment that holds some of the      *)
(* variables below.                                                            *)

ConfigStruct == <<"C", "o", "n", "f", "i", "g">>
DB == <<"D", "B">>
ConfigFields == <<[field |-> kA, env_name |-> None], [field |-> kB, env_name |-> Some(DB)]>>
APP_CONFIG_A == <<"A", "P", "P", "_", "C", "O", "N", "F", "I", "G", "_", "A">>
CONFIG_A == <<"C", "O", "N", "F", "I", "G", "_", "A">>
APP_B == <<"A", "P", "P", "_", "B">>
A_ == <<"A">>
StructVariables ==
    (APP_CONFIG_A :> <<"1">>) @@ (CONFIG_A :> <<"2">>) @@ (APP_A :> <<"3">>)
    @@ (A_ :> <<"4">>) @@ (DB :> <<"5">>) @@ (APP_B :> <<"6">>)

InitDerive ==
    /\ bpc = "idle" /\ sources = <<>> /\ merge_strategy = "Deep"
    /\ validate = <<>> /\ log = <<>> /\ outcome = <<>>
    /\ NoMerging
    /\ raw_value = <<>> /\ coerced = <<>>
    /\ argv = <<>> /\ again = <<>>
    /\ queried = None
    /\ one_source = None
    /\ collected = None
    /\ \E set \in SUBSET DOMAIN StructVariables : env = [n \in set |-> StructVariables[n]]
    /\ fs = NoEntries

\* from_gonfig makes the source
DeriveEnvironment ==
    /\ one_source = None
    /\ \E env_prefix \in {<<>>, APP} :
          one_source' = Some(derived_environment(env_prefix, ConfigFields))
    /\ UNCHANGED <<raw_value, coerced, collected, runVars, mergeVars, sourcesVars,
                   builderVars, worldVars>>

\* build collects it
DeriveCollect ==
    /\ one_source # None /\ collected = None
    /\ \E r \in Environment_collect(one_source[1], env) : collected' = Some(r)
    /\ UNCHANGED <<raw_value, coerced, one_source, runVars, mergeVars, sourcesVars,
                   builderVars, worldVars>>

CollectForStruct ==
    /\ one_source # None /\ queried = None
    /\ queried' = Some(collect_for_struct(one_source[1], ConfigStruct, ConfigFields, env))
    /\ UNCHANGED <<raw_value, coerced, one_source, collected, argv, again, mergeVars,
                   sourcesVars, builderVars, worldVars>>

NextDerive == DeriveEnvironment \/ DeriveCollect \/ CollectForStruct

SpecDerive == InitDerive /\ [][NextDerive]_vars

-----------------------------------------------------------------------------
(* C24, in SpecDerive                                                          *)

\* C24: the source of the derive interface reads the field a, which has no
\* env_name, from APP_CONFIG_A with the prefix APP and from CONFIG_A without
\* a prefix, and the field b, whose env_name is DB, from DB: the field holds
\* the coerced value of that variable and is absent when it is not set.
C24_DerivedNamesHoldTheStruct ==
    HasCollected =>
        LET named == (kA :> (IF one_source[1].prefix # None THEN APP_CONFIG_A ELSE CONFIG_A))
                     @@ (kB :> DB)
        IN  \A f \in {kA, kB} :
                IF named[f] \in DOMAIN env
                THEN Holds(Collected, f) /\ Collected.v[f] = Coercion(env, named[f])
                ELSE ~Holds(Collected, f)

-----------------------------------------------------------------------------
(* SpecTwice: a builder given Environment sources, built, and the same chain   *)
(* built a second time in the same environment.                                *)

with_env_custom(self, environment) == add_source(self, environment)

TwoOverrides == override_with(override_with(Environment_new, APP_A, <<"7">>), APP_a, <<"8">>)
Environments ==
    {TwoOverrides, with_prefix(TwoOverrides, APP), override_with(Environment_new, APP_A, <<"7">>)}

InitTwice ==
    /\ InitBuilder
    /\ \E set \in SUBSET {APP_A, APP_a} : env = [n \in set |-> Variables[n]]
    /\ fs = NoEntries

TwiceWithEnv ==
    /\ Building /\ Room
    /\ Chained(with_env(Self, APP))

TwiceWithEnvCustom ==
    /\ Building /\ Room
    /\ \E environment \in Environments : Chained(with_env_custom(Self, environment))

\* the chain of calls made again, and built
BuildValueAgain ==
    /\ bpc = "done" /\ again = None
    /\ \E run \in build_value(Self, env, fs) : again' = Some(run.returned)
    /\ UNCHANGED <<raw_value, coerced, one_source, collected, argv, queried, mergeVars,
                   sourcesVars, builderVars, worldVars>>

NextTwice ==
    \/ TwiceWithEnv \/ TwiceWithEnvCustom \/ WithMergeStrategy \/ BuildValue
    \/ BuildValueAgain

SpecTwice == InitTwice /\ [][NextTwice]_vars

-----------------------------------------------------------------------------
(* C25, in SpecTwice                                                           *)

\* C25: the second run of a build, with the same sources in the same order,
\* the same merge strategy and the same environment, returns the merged value
\* the first run returned.
C25_SecondRunReturnsTheSame ==
    again # None => again[1] = outcome.returned

-----------------------------------------------------------------------------
(* SpecEmpty: merge_sources applied to lists in which a source may have        *)
(* collected the empty object.                                                 *)

ValuesOrEmpty ==
    {EmptyObject, Obj(kA :> Num(1)), Obj(kB :> Num(1)), Arr(<<Num(1)>>)}

InitEmpty ==
    /\ spc = "call"
    /\ strategy \in MergeStrategies
    /\ pairs \in SeqsUpTo(MaxSources, ValuesOrEmpty \X Priorities)
    /\ result = Null
    /\ mpc = "idle" /\ base = Null /\ incoming = Null /\ merged = Null
    /\ NoBuilder /\ NoUnit

SpecEmpty == InitEmpty /\ [][NextSources]_vars

-----------------------------------------------------------------------------
(* C26, in SpecEmpty                                                           *)

Returned == spc = "returned"
Empties == {i \in 1..Len(pairs) : pairs[i][1] = EmptyObject}
\* the pairs at the indices of S, in the order of the list
RECURSIVE Only(_, _)
Only(S, n) ==
    IF n = 0 THEN <<>>
    ELSE IF n \in S THEN Append(Only(S, n - 1), pairs[n]) ELSE Only(S, n - 1)
Without(i) == Only((1..Len(pairs)) \ {i}, Len(pairs))
Before(i) == {m \in 1..Len(pairs) : FoldedBefore(m, i)}
After(i) == {m \in 1..Len(pairs) : FoldedBefore(i, m)}
\* the source folded just before source i holds an object, or there is none
OnObject(i) ==
    \A m \in Before(i) :
        (\A n \in Before(i) \ {m} : FoldedBefore(n, m)) => is_object(pairs[m][1])

\* C26: a source that collected the empty object leaves the merged result as
\* it is without the source, under every merge strategy and at every priority.
C26_EmptySourceChangesNothing ==
    Returned => \A i \in Empties : result = merge_sources(strategy, Without(i))

\* C26 as the code has it: under Deep and Append the result is that of the
\* list without the empty source when the source folded just before it holds
\* an object (or it is folded first), and otherwise that of the sources
\* folded after it alone; under Replace the result is the empty object when
\* the empty source is folded last, and that of the list without it otherwise.
C26_EmptySourceKeepsObjects ==
    Returned =>
        \A i \in Empties :
            IF strategy = "Replace"
            THEN result = (IF After(i) = {} THEN EmptyObject
                           ELSE merge_sources(strategy, Without(i)))
            ELSE result = (IF OnObject(i) THEN merge_sources(strategy, Without(i))
                           ELSE merge_sources(strategy, Only(After(i), Len(pairs))))

\* an empty source of the highest priority left the value of the other source
C26_Witness ==
    /\ Returned /\ strategy = "Deep"
    /\ pairs = <<<<Obj(kA :> Num(1)), 1>>, <<EmptyObject, 3>>>>
    /\ result = Obj(kA :> Num(1))

-----------------------------------------------------------------------------
(* SpecQuery: one Environment source, configured call by call, collected and   *)
(* then asked for one key.                                                     *)

\* the keys asked for: a, app_a
QueryKeys == {kA, APP_a}

InitQuery ==
    /\ bpc = "idle" /\ sources = <<>> /\ merge_strategy = "Deep"
    /\ validate = <<>> /\ log = <<>> /\ outcome = <<>>
    /\ NoMerging
    /\ raw_value = <<>> /\ coerced = <<>>
    /\ argv = <<>> /\ again = <<>>
    /\ queried = None
    /\ one_source = Environment_new
    /\ collected = None
    /\ \E set \in SUBSET {APP_A, APP_a, K_A} : env = [n \in set |-> Variables[n]]
    /\ fs = NoEntries

\* has_value and get_value for one key
EnvQuery ==
    /\ collected # None /\ queried = None
    /\ \E key \in QueryKeys :
          queried' = Some([key |-> key,
                           has_value |-> Environment_has_value(one_source, key, env),
                           get_value |-> Environment_get_value(one_source, key, env)])
    /\ UNCHANGED <<raw_value, coerced, one_source, collected, argv, again, mergeVars,
                   sourcesVars, builderVars, worldVars>>

NextQuery ==
    \/ EnvWithPrefix \/ EnvSeparator \/ EnvCaseSensitive \/ EnvOverrideWith
    \/ EnvWithFieldMapping \/ EnvCollect \/ EnvQuery

SpecQuery == InitQuery /\ [][NextQuery]_vars

-----------------------------------------------------------------------------
(* C27, in SpecQuery                                                           *)

\* C27: for every key, has_value is true and get_value returns Some(v)
\* exactly when the result of collect holds the key with the value v.
C27_PointQueriesAgreeWithCollect ==
    (HasCollected /\ queried # None) =>
        /\ queried[1].has_value = Holds(Collected, queried[1].key)
        /\ queried[1].get_value =
              (IF Holds(Collected, queried[1].key)
               THEN Some(Collected.v[queried[1].key]) ELSE None)

-----------------------------------------------------------------------------
(* SpecDefaults: a builder given defaults, more than once, besides the         *)
(* environment and the arguments of the process.                               *)

DefaultValues ==
    { Obj((kA :> Num(1)) @@ (kB :> Num(1))),
      Obj(kA :> Num(2)),
      Obj(kA :> Obj(kX :> Num(1))),
      Obj((kA :> Obj(kY :> Num(2))) @@ (kZ :> Num(2))) }

InitDefaults ==
    /\ InitBuilder
    /\ env \in {NoEntries, APP_A :> <<"1">>}
    /\ fs = NoEntries

DefaultsWithDefaults ==
    /\ Building /\ Room
    /\ \E defaults \in DefaultValues :
          Tried("with_defaults", with_defaults(Self, defaults))

NextDefaults ==
    DefaultsWithDefaults \/ WithEnv \/ WithCli \/ WithMergeStrategy \/ BuildValue

SpecDefaults == InitDefaults /\ [][NextDefaults]_vars

-----------------------------------------------------------------------------
(* C28, in SpecDefaults                                                        *)

IsDefaults(src) == src.impl = "DefaultsSource"
DefaultsAt == {i \in 1..Len(sources) : IsDefaults(sources[i])}
\* with_defaults was called twice: the source of the later call and the
\* source of the earlier call, as the steps below place them
Later == CHOOSE i \in DefaultsAt : \A j \in DefaultsAt : i <= j
Earlier == CHOOSE i \in DefaultsAt : \A j \in DefaultsAt : j <= i
Twice == Merged /\ merge_strategy = "Deep" /\ Cardinality(DefaultsAt) = 2
\* the keys both defaults hold and no other source holds
SharedDefaults ==
    (Keys(sources[Later].value) \cap Keys(sources[Earlier].value))
    \ UNION {Keys(Inputs[i][1]) : i \in (1..Len(Inputs)) \ DefaultsAt}
\* a step that adds a defaults source puts it before the sources there are
DefaultsGoFirst ==
    (Len(sources') = Len(sources) + 1
     /\ \E i \in 1..Len(sources') :
            /\ IsDefaults(sources'[i])
            /\ [j \in 1..Len(sources) |-> sources'[IF j < i THEN j ELSE j + 1]] = sources)
        => (IsDefaults(sources'[1]) /\ Tail(sources') = sources)
DefaultsRankLowest ==
    \A i \in 1..Len(Inputs) :
        IF i \in DefaultsAt THEN Inputs[i][2] = 0 ELSE Inputs[i][2] > 0

\* C28: after two calls of with_defaults both defaults sources have
\* priority 0 and every other source a higher one, the source of the later
\* call is placed before the source of the earlier call, and a key both hold
\* (and no other source holds) has the value of the earlier call in the
\* Deep-merged result.
C28_EarlierDefaultsWin ==
    /\ [](Twice => /\ DefaultsRankLowest
                   /\ \A k \in SharedDefaults :
                         MergedConfig.v[k] = sources[Earlier].value.v[k])
    /\ [][DefaultsGoFirst]_vars

\* C28 as the code has it: the same, but where both calls hold an object at
\* the key the two objects are merged recursively, the earlier call's object
\* over the later call's, so that nested keys of the later call remain.
C28_EarlierDefaultsMergeOver ==
    /\ [](Twice => /\ DefaultsRankLowest
                   /\ \A k \in SharedDefaults :
                         MergedConfig.v[k] =
                             deep_merge(sources[Later].value.v[k],
                                        sources[Earlier].value.v[k]))
    /\ [][DefaultsGoFirst]_vars

\* with_defaults({a: 2}), then with_defaults({a: 1, b: 1}), then the
\* environment without variables: a holds 2, the value of the earlier call
C28_Witness ==
    /\ Twice /\ Len(sources) = 3
    /\ sources[1] = DefaultsSource(Obj((kA :> Num(1)) @@ (kB :> Num(1))))
    /\ sources[2] = DefaultsSource(Obj(kA :> Num(2)))
    /\ sources[3].impl = "Environment"
    /\ MergedConfig = Obj((kA :> Num(2)) @@ (kB :> Num(1)))

-----------------------------------------------------------------------------
(* SpecValidate: a builder given sources and validators; log holds the calls   *)
(* of validate_with and, after them, the calls the terminal operation made.    *)

ValidateWithLogged ==
    /\ Building /\ Len(CallsOf("validate_with")) < MaxSources
    /\ \E v \in Validators :
          /\ Becomes(validate_with(Self, v))
          /\ log' = Append(log, Call("validate_with", v, "Self"))
    /\ UNCHANGED <<bpc, outcome, mergeVars, sourcesVars, worldVars, unitVars>>

Finished(op, run) ==
    /\ bpc' = "done"
    /\ log' = log \o run.log
    /\ outcome' = [op |-> op, returned |-> run.returned]
    /\ UNCHANGED <<sources, merge_strategy, validate, mergeVars, sourcesVars,
                   worldVars, unitVars>>

BuildLogged ==
    /\ Building
    /\ \E T \in Types : \E run \in build(Self, T, env, fs) : Finished("build", run)

BuildValueLogged ==
    /\ Building
    /\ \E run \in build_value(Self, env, fs) : Finished("build_value", run)

NextValidate ==
    \/ AddSource \/ WithMergeStrategy \/ ValidateWithLogged \/ BuildLogged
    \/ BuildValueLogged

SpecValidate == Init /\ [][NextValidate]_vars

-----------------------------------------------------------------------------
(* C29, in SpecValidate                                                        *)

Registered == CallsOf("validate_with")
LastRegistered == Registered[Len(Registered)].arg

\* C29: a terminal operation that merged calls no validator when
\* validate_with was never called, and otherwise calls the validator of the
\* last call of validate_with, once, on the merged value, whatever the
\* validators of the earlier calls would return: when it accepts, build_value
\* returns the merged value and build goes on to decode it; a call of
\* validate_with leaves the sources and the merge strategy as they are.
C29_LastValidatorOnly ==
    /\ [](Merged =>
            IF Registered = <<>> THEN CallsOf("validator") = <<>>
            ELSE /\ Len(CallsOf("validator")) = 1
                 /\ IsCall(CallsOf("validator")[1], "validator", MergedConfig,
                           validator(LastRegistered, MergedConfig))
                 /\ validator(LastRegistered, MergedConfig).ok =>
                       IF outcome.op = "build_value"
                       THEN outcome.returned = Ok(MergedConfig)
                       ELSE Len(CallsOf("from_value")) = 1)
    /\ [][Len(Registered') > Len(Registered) =>
             (sources' = sources /\ merge_strategy' = merge_strategy)]_vars

\* validate_with was given PortRange and then PortMax, and build_value
\* returned a merged value with the port 0, which PortRange rejects
C29_Witness ==
    /\ DoneBy("build_value") /\ Merged
    /\ Len(Registered) = 2
    /\ Registered[1].arg = "PortRange" /\ Registered[2].arg = "PortMax"
    /\ port_of(MergedConfig) = Some(0)
    /\ ~validator("PortRange", MergedConfig).ok
    /\ Len(CallsOf("validator")) = 1
    /\ outcome.returned = Ok(MergedConfig)

-----------------------------------------------------------------------------
(* SpecPrecedence: ConfigMerger::new(strategy).merge_with_precedence(pairs),   *)
(* pairs being a map from names to pairs <<value, priority>>.                  *)

SourceNames == {"defaults", "file", "env"}
NamedValues == {Obj(kA :> Num(1)), Obj(kA :> Num(2)), Obj(kB :> Num(1))}

InitPrecedence ==
    /\ spc = "call"
    /\ strategy \in MergeStrategies
    /\ \E names \in SUBSET SourceNames : pairs \in [names -> NamedValues \X Priorities]
    /\ result = Null
    /\ mpc = "idle" /\ base = Null /\ incoming = Null /\ merged = Null
    /\ NoBuilder /\ NoUnit

MergeWithPrecedence ==
    /\ spc = "call"
    /\ result' \in merge_with_precedence(strategy, pairs)
    /\ spc' = "returned"
    /\ UNCHANGED <<pairs, mpc, strategy, base, incoming, merged, builderVars,
                   worldVars, unitVars>>

NextPrecedence == MergeWithPrecedence

SpecPrecedence == InitPrecedence /\ [][NextPrecedence]_vars

-----------------------------------------------------------------------------
(* C30, in SpecPrecedence                                                      *)

\* the lists that hold the pairs of the map, each once
Listings ==
    {[i \in 1..Cardinality(DOMAIN pairs) |-> pairs[o[i]]] :
        o \in {p \in [1..Cardinality(DOMAIN pairs) -> DOMAIN pairs] :
                  \A i, j \in DOMAIN p : p[i] = p[j] => i = j}}

\* C30: the result of merge_with_precedence is that of merge_sources applied
\* to the pairs of the map, in whichever order they are listed: it depends on
\* the entries alone, also when two entries of one priority hold a key with
\* different values.
C30_PrecedenceIgnoresMapOrder ==
    Returned => \A listing \in Listings : result = merge_sources(strategy, listing)
====
